---- MODULE Spec2Model ----
(***************************************************************************)
(* PoGoBot (src/main.go, second program text, lines 1376-3046): the        *)
(* subscription matching and notification dispatch engine.                 *)
(*                                                                         *)
(* State: the configuration store (users, subscriptions, encounters and    *)
(* messages tables of dbConfig), the in-memory indices (users,             *)
(* activeSubscriptions), the in-memory ledger (sentNotifications), the     *)
(* clock, the message-id counters of the gateway and the position of the   *)
(* background goroutine.  The remaining variables observe the last pass    *)
(* (which rows were fetched, which calls and sends were made) and count    *)
(* the dispatches; the program does not read them.                         *)
(*                                                                         *)
(* Abstractions: User.Language and the rendered text are left out (they    *)
(* take no part in matching or in the ledger); IV is a whole percentage;   *)
(* coordinates are whole degrees and haversine is tabulated on them,       *)
(* rounded up to the next metre (d > m for an integer m iff ceil(d) > m).  *)
(***************************************************************************)
EXTENDS Integers, Sequences, FiniteSets, TLC

\* ------------------------------------------------------------- constants

\* processEncounters: time.Now().Unix() - 30
Lookback == 30
\* startBackgroundProcessing: time.Sleep(30 * time.Second)
SleepSeconds == 30
\* the number of sleeps after which the clock stops advancing: the expiry
\* stamps of the model (50 and 90) lie at least Lookback before TimeCap, so
\* that no row is fetched any more once the clock has stopped
MaxTicks == 4
TimeCap == MaxTicks * SleepSeconds

UserIDs == {1, -1001}
\* a missing key of users.All yields the zero User, whose ID is 0
UserKeys == UserIDs \cup {0}
EncounterIDs == {"e1", "e2"}
PokemonIDs == {16, 19}
\* the scanner's iv column is nullable
IVNull == -1
\* a row that is not in the encounters table
NoRow == -1
SendKinds == {"sticker", "location", "message", "venue"}
Paths == {"hundo", "zero", "channel", "subscription"}

\* --------------------------------------------------------------- helpers

Range(s) == {s[i] : i \in DOMAIN s}

\* every order in which the elements of S can be listed (Go ranges over a
\* map in an unspecified order; a query without ORDER BY returns its rows
\* in an unspecified order)
Orderings(S) == {s \in [1..Cardinality(S) -> S] : Range(s) = S}

\* ----------------------------------------------------------------- types

\* the column defaults of type User
NewUser(id) ==
    [ID |-> id, Notify |-> TRUE, Stickers |-> TRUE, OnlyMap |-> FALSE,
     Cleanup |-> TRUE, Latitude |-> 0, Longitude |-> 0, MaxDistance |-> 0,
     HundoIV |-> FALSE, ZeroIV |-> FALSE, MinIV |-> 0, MinLevel |-> 0]

\* Go's zero value of type User
ZeroUser ==
    [ID |-> 0, Notify |-> FALSE, Stickers |-> FALSE, OnlyMap |-> FALSE,
     Cleanup |-> FALSE, Latitude |-> 0, Longitude |-> 0, MaxDistance |-> 0,
     HundoIV |-> FALSE, ZeroIV |-> FALSE, MinIV |-> 0, MinLevel |-> 0]

\* users.All[id]: the zero value when the key is missing
UserAt(all, id) == IF id \in DOMAIN all THEN all[id] ELSE ZeroUser

\* ------------------------------------------------------------- haversine

HaversineTable ==
    <<0,0,0,0>> :> 0 @@ <<0,0,0,1>> :> 111195 @@ <<0,0,0,2>> :> 222390 @@ <<0,0,1,0>> :> 111195 @@ <<0,0,1,1>> :> 157250 @@ <<0,0,1,2>> :> 248630 @@ <<0,0,2,0>> :> 222390 @@ <<0,0,2,1>> :> 248630 @@ <<0,0,2,2>> :> 314475 @@
    <<0,1,0,0>> :> 111195 @@ <<0,1,0,1>> :> 0 @@ <<0,1,0,2>> :> 111195 @@ <<0,1,1,0>> :> 157250 @@ <<0,1,1,1>> :> 111195 @@ <<0,1,1,2>> :> 157250 @@ <<0,1,2,0>> :> 248630 @@ <<0,1,2,1>> :> 222390 @@ <<0,1,2,2>> :> 248630 @@
    <<0,2,0,0>> :> 222390 @@ <<0,2,0,1>> :> 111195 @@ <<0,2,0,2>> :> 0 @@ <<0,2,1,0>> :> 248630 @@ <<0,2,1,1>> :> 157250 @@ <<0,2,1,2>> :> 111195 @@ <<0,2,2,0>> :> 314475 @@ <<0,2,2,1>> :> 248630 @@ <<0,2,2,2>> :> 222390 @@
    <<1,0,0,0>> :> 111195 @@ <<1,0,0,1>> :> 157250 @@ <<1,0,0,2>> :> 248630 @@ <<1,0,1,0>> :> 0 @@ <<1,0,1,1>> :> 111178 @@ <<1,0,1,2>> :> 222356 @@ <<1,0,2,0>> :> 111195 @@ <<1,0,2,1>> :> 157226 @@ <<1,0,2,2>> :> 248569 @@
    <<1,1,0,0>> :> 157250 @@ <<1,1,0,1>> :> 111195 @@ <<1,1,0,2>> :> 157250 @@ <<1,1,1,0>> :> 111178 @@ <<1,1,1,1>> :> 0 @@ <<1,1,1,2>> :> 111178 @@ <<1,1,2,0>> :> 157226 @@ <<1,1,2,1>> :> 111195 @@ <<1,1,2,2>> :> 157226 @@
    <<1,2,0,0>> :> 248630 @@ <<1,2,0,1>> :> 157250 @@ <<1,2,0,2>> :> 111195 @@ <<1,2,1,0>> :> 222356 @@ <<1,2,1,1>> :> 111178 @@ <<1,2,1,2>> :> 0 @@ <<1,2,2,0>> :> 248569 @@ <<1,2,2,1>> :> 157226 @@ <<1,2,2,2>> :> 111195 @@
    <<2,0,0,0>> :> 222390 @@ <<2,0,0,1>> :> 248630 @@ <<2,0,0,2>> :> 314475 @@ <<2,0,1,0>> :> 111195 @@ <<2,0,1,1>> :> 157226 @@ <<2,0,1,2>> :> 248569 @@ <<2,0,2,0>> :> 0 @@ <<2,0,2,1>> :> 111128 @@ <<2,0,2,2>> :> 222255 @@
    <<2,1,0,0>> :> 248630 @@ <<2,1,0,1>> :> 222390 @@ <<2,1,0,2>> :> 248630 @@ <<2,1,1,0>> :> 157226 @@ <<2,1,1,1>> :> 111195 @@ <<2,1,1,2>> :> 157226 @@ <<2,1,2,0>> :> 111128 @@ <<2,1,2,1>> :> 0 @@ <<2,1,2,2>> :> 111128 @@
    <<2,2,0,0>> :> 314475 @@ <<2,2,0,1>> :> 248630 @@ <<2,2,0,2>> :> 222390 @@ <<2,2,1,0>> :> 248569 @@ <<2,2,1,1>> :> 157226 @@ <<2,2,1,2>> :> 111195 @@ <<2,2,2,0>> :> 222255 @@ <<2,2,2,1>> :> 111128 @@ <<2,2,2,2>> :> 0

\* great-circle distance in metres, rounded up, between whole-degree points
haversine(lat1, lon1, lat2, lon2) == HaversineTable[<<lat1, lon1, lat2, lon2>>]

\* ---------------------------------------------------------- index rebuild

\* the first three characters of the decimal digits of n > 0
LeadingThree(n) ==
    LET RECURSIVE lead(_)
        lead(k) == IF k < 1000 THEN k ELSE lead(k \div 10)
    IN lead(n)

\* strings.HasPrefix(strconv.FormatInt(id, 10), "-100")
IsChannelID(id) == id < 0 /\ LeadingThree(-id) = 100

getUsersByFiltersIgnoreNotify(db) ==
    LET hundo == {db[id] : id \in {i \in DOMAIN db : db[i].HundoIV}}
        zero == {db[id] : id \in {i \in DOMAIN db : db[i].ZeroIV}}
        channels == {db[id] : id \in {i \in DOMAIN db : IsChannelID(db[i].ID)}}
    IN {[All |-> db, HundoIV |-> h, ZeroIV |-> z, Channels |-> c] :
           h \in Orderings(hundo), z \in Orderings(zero),
           c \in Orderings(channels)}

\* getUsersByFilters: every value the rebuilt index can take for the users
\* table db (a function from the stored ids to their rows).  The three
\* lists are filled while ranging over the map users.All, in any order.
getUsersByFilters(db) ==
    LET notify == {id \in DOMAIN db : db[id].Notify}
        hundo == {db[id] : id \in {i \in notify : db[i].HundoIV}}
        zero == {db[id] : id \in {i \in notify : db[i].ZeroIV}}
        channels == {db[id] : id \in {i \in notify : IsChannelID(db[i].ID)}}
    IN {[All |-> db, HundoIV |-> h, ZeroIV |-> z, Channels |-> c] :
           h \in Orderings(hundo), z \in Orderings(zero),
           c \in Orderings(channels)}

\* getUsersByFilters while it runs in a handler's goroutine: users has been
\* replaced, All holds the rows copied so far (not yet all of them) and the
\* three lists are still empty
getUsersByFiltersLoading(db) ==
    {[All |-> [id \in S |-> db[id]], HundoIV |-> <<>>, ZeroIV |-> <<>>, Channels |-> <<>>] :
        S \in (SUBSET DOMAIN db) \ {DOMAIN db}}

getActiveSubscriptionsUnfiltered(subs, idx) ==
    LET stored(p) == {s \in subs : s.PokemonID = p}
    IN {f \in [PokemonIDs -> UNION {Orderings(stored(p)) : p \in PokemonIDs}] :
           \A p \in PokemonIDs : f[p] \in Orderings(stored(p))}

\* getActiveSubscriptions: every value the rebuilt map can take for the
\* subscriptions table subs and the index idx.  A key without subscriptions
\* is missing from the Go map; here it holds the empty list.
getActiveSubscriptions(subs, idx) ==
    LET active(p) == {s \in subs : s.PokemonID = p /\ UserAt(idx.All, s.UserID).Notify}
    IN {f \in [PokemonIDs -> UNION {Orderings(active(p)) : p \in PokemonIDs}] :
           \A p \in PokemonIDs : f[p] \in Orderings(active(p))}

\* users as the first statement of getUsersByFilters leaves it
EmptyIndex == [All |-> <<>>, HundoIV |-> <<>>, ZeroIV |-> <<>>, Channels |-> <<>>]

\* activeSubscriptions as the first statement of getActiveSubscriptions
\* leaves it
EmptySubscriptions == [p \in PokemonIDs |-> <<>>]

\* the body of the second loop of getUsersByFilters for user: the appends
\* to the three lists of idx
listUser(idx, user) ==
    IF user.Notify
    THEN [idx EXCEPT
             !.HundoIV = IF user.HundoIV THEN Append(@, user) ELSE @,
             !.ZeroIV = IF user.ZeroIV THEN Append(@, user) ELSE @,
             !.Channels = IF IsChannelID(user.ID) THEN Append(@, user) ELSE @]
    ELSE idx

\* the body of the loop of getActiveSubscriptions for subscription sub
loadSubscription(active, idx, sub) ==
    IF UserAt(idx.All, sub.UserID).Notify
    THEN [active EXCEPT ![sub.PokemonID] = Append(@, sub)]
    ELSE active

\* ----------------------------------------------------------- store access

\* getUserPreferences: dbConfig.FirstOrCreate(&user, User{ID: userID}), as
\* the users table it leaves behind
getUserPreferences(db, userID) ==
    IF userID \in DOMAIN db THEN db ELSE db @@ (userID :> NewUser(userID))

\* updateUserPreference: the UPDATE of one column WHERE id = userID (no
\* row, no change; nor for Language, a column left out here), then
\* getUsersByFilters; every outcome as the table and the rebuilt index
updateUserPreference(db, userID, field, value) ==
    LET updated == IF userID \in DOMAIN db /\ field \in DOMAIN db[userID]
                   THEN [db EXCEPT ![userID] = [@ EXCEPT ![field] = value]]
                   ELSE db
    IN {[db |-> updated, users |-> idx] : idx \in getUsersByFilters(updated)}

\* an insert that never updates (dbConfig.Create on a table with a key of
\* its own)
saveSubscriptionCreate(subs, sub) == subs \cup {sub}

\* dbConfig.Save(&subscription): insert, or update the row of the same
\* primary key (UserID, PokemonID)
saveSubscription(subs, sub) ==
    {s \in subs : ~(s.UserID = sub.UserID /\ s.PokemonID = sub.PokemonID)} \cup {sub}

\* addSubscription: Save, then getActiveSubscriptions against the index
\* idx; every outcome as the table and the rebuilt map
addSubscription(subs, idx, sub) ==
    {[subs |-> saveSubscription(subs, sub), active |-> act] :
        act \in getActiveSubscriptions(saveSubscription(subs, sub), idx)}

\* --------------------------------------------------------------- dispatch
\* The passes work on a record L of the tables and observations they
\* change: sent (sentNotifications), rows (encounters table, id -> expiry
\* or NoRow), msgs (messages table), next (the gateway's next message id
\* per chat), calls, sends, ncount, lcount, retract (observations).

\* a send that stores a message record whatever the gateway answered
botSendRecordAlways(L, UserID, EncounterID, kind, fails) ==
    [L EXCEPT !.sends = Append(@, [UserID |-> UserID, EncounterID |-> EncounterID,
                                   Kind |-> kind, OK |-> kind \notin fails]),
              !.msgs = @ \cup {[ChatID |-> UserID, MessageID |-> L.next[UserID],
                                EncounterID |-> EncounterID]},
              !.next[UserID] = @ + 1]

\* bot.Send of one artifact and, on success, dbConfig.Create(&Message{...})
botSend(L, UserID, EncounterID, kind, fails) ==
    IF kind \in fails
    THEN [L EXCEPT !.sends = Append(@, [UserID |-> UserID, EncounterID |-> EncounterID,
                                        Kind |-> kind, OK |-> FALSE])]
    ELSE [L EXCEPT !.sends = Append(@, [UserID |-> UserID, EncounterID |-> EncounterID,
                                        Kind |-> kind, OK |-> TRUE]),
                   !.msgs = @ \cup {[ChatID |-> UserID, MessageID |-> L.next[UserID],
                                     EncounterID |-> EncounterID]},
                   !.next[UserID] = @ + 1]

sendSticker(L, UserID, EncounterID, fails) == botSend(L, UserID, EncounterID, "sticker", fails)

sendLocation(L, UserID, EncounterID, fails) == botSend(L, UserID, EncounterID, "location", fails)

sendVenue(L, UserID, EncounterID, fails) == botSend(L, UserID, EncounterID, "venue", fails)

sendMessage(L, UserID, EncounterID, fails) == botSend(L, UserID, EncounterID, "message", fails)

alreadyNotifiedNever(L, user, encounter) == FALSE

\* the check that opens sendEncounterNotification
alreadyNotified(L, user, encounter) == user.ID \in L.sent[encounter.ID]

\* a dispatch that sends the sticker whatever the user's Stickers says
sendEncounterNotificationAlwaysSticker(L, user, encounter, path, fails) ==
    LET called == [L EXCEPT !.calls = @ \cup {[EncounterID |-> encounter.ID,
                                               UserID |-> user.ID, Path |-> path]}]
    IN IF alreadyNotified(L, user, encounter)
       THEN called
       ELSE LET saved == [called EXCEPT
                    !.rows[encounter.ID] = encounter.ExpireTimestamp,
                    !.sent[encounter.ID] = @ \cup {user.ID},
                    !.ncount[encounter.ID][user.ID] = @ + 1,
                    !.lcount[encounter.ID][user.ID] = @ + 1]
                s1 == IF ~user.OnlyMap
                      THEN sendSticker(saved, user.ID, encounter.ID, fails)
                      ELSE saved
                s2 == IF ~user.OnlyMap
                      THEN sendLocation(s1, user.ID, encounter.ID, fails)
                      ELSE s1
            IN IF ~user.OnlyMap
               THEN sendMessage(s2, user.ID, encounter.ID, fails)
               ELSE sendVenue(s2, user.ID, encounter.ID, fails)

\* a dispatch that gives up at its first failed send
sendEncounterNotificationStopOnFailure(L, user, encounter, path, fails) ==
    LET called == [L EXCEPT !.calls = @ \cup {[EncounterID |-> encounter.ID,
                                               UserID |-> user.ID, Path |-> path]}]
        failed(S) == \E i \in DOMAIN S.sends : i > Len(called.sends) /\ ~S.sends[i].OK
    IN IF alreadyNotified(L, user, encounter)
       THEN called
       ELSE LET saved == [called EXCEPT
                    !.rows[encounter.ID] = encounter.ExpireTimestamp,
                    !.sent[encounter.ID] = @ \cup {user.ID},
                    !.ncount[encounter.ID][user.ID] = @ + 1,
                    !.lcount[encounter.ID][user.ID] = @ + 1]
                s1 == IF ~user.OnlyMap /\ user.Stickers
                      THEN sendSticker(saved, user.ID, encounter.ID, fails)
                      ELSE saved
                s2 == IF ~user.OnlyMap /\ ~failed(s1)
                      THEN sendLocation(s1, user.ID, encounter.ID, fails)
                      ELSE s1
            IN IF failed(s2)
               THEN s2
               ELSE IF ~user.OnlyMap
                    THEN sendMessage(s2, user.ID, encounter.ID, fails)
                    ELSE sendVenue(s2, user.ID, encounter.ID, fails)

\* a dispatch that records the pair only once one of its sends has succeeded
sendEncounterNotificationRecordOnSuccess(L, user, encounter, path, fails) ==
    LET called == [L EXCEPT !.calls = @ \cup {[EncounterID |-> encounter.ID,
                                               UserID |-> user.ID, Path |-> path]}]
    IN IF alreadyNotified(L, user, encounter)
       THEN called
       ELSE LET s1 == IF ~user.OnlyMap /\ user.Stickers
                      THEN sendSticker(called, user.ID, encounter.ID, fails)
                      ELSE called
                s2 == IF ~user.OnlyMap
                      THEN sendLocation(s1, user.ID, encounter.ID, fails)
                      ELSE s1
                s3 == IF ~user.OnlyMap
                      THEN sendMessage(s2, user.ID, encounter.ID, fails)
                      ELSE sendVenue(s2, user.ID, encounter.ID, fails)
            IN IF \E i \in DOMAIN s3.sends : i > Len(called.sends) /\ s3.sends[i].OK
               THEN [s3 EXCEPT
                    !.rows[encounter.ID] = encounter.ExpireTimestamp,
                    !.sent[encounter.ID] = @ \cup {user.ID},
                    !.ncount[encounter.ID][user.ID] = @ + 1,
                    !.lcount[encounter.ID][user.ID] = @ + 1]
               ELSE s3

\* sendEncounterNotification, called on the given matching path
sendEncounterNotification(L, user, encounter, path, fails) ==
    LET called == [L EXCEPT !.calls = @ \cup {[EncounterID |-> encounter.ID,
                                               UserID |-> user.ID, Path |-> path]}]
    IN IF alreadyNotified(L, user, encounter)
       THEN called
       ELSE LET saved == [called EXCEPT
                    !.rows[encounter.ID] = encounter.ExpireTimestamp,
                    !.sent[encounter.ID] = @ \cup {user.ID},
                    !.ncount[encounter.ID][user.ID] = @ + 1,
                    !.lcount[encounter.ID][user.ID] = @ + 1]
                s1 == IF ~user.OnlyMap /\ user.Stickers
                      THEN sendSticker(saved, user.ID, encounter.ID, fails)
                      ELSE saved
                s2 == IF ~user.OnlyMap
                      THEN sendLocation(s1, user.ID, encounter.ID, fails)
                      ELSE s1
            IN IF ~user.OnlyMap
               THEN sendMessage(s2, user.ID, encounter.ID, fails)
               ELSE sendVenue(s2, user.ID, encounter.ID, fails)

\* --------------------------------------------------------------- matching

tooFarWithoutCoordinates(user, maxDistance, encounter) ==
    /\ maxDistance > 0
    /\ haversine(user.Latitude, user.Longitude, encounter.Lat, encounter.Lon) > maxDistance

\* the distance test of the top-quality, worst-quality and subscription
\* paths: the user has both coordinates, a threshold is set, and the
\* encounter lies beyond it
tooFar(user, maxDistance, encounter) ==
    /\ user.Latitude # 0
    /\ user.Longitude # 0
    /\ maxDistance > 0
    /\ haversine(user.Latitude, user.Longitude, encounter.Lat, encounter.Lon) > maxDistance

\* a channel test that also applies the distance test of the other paths
channelMatchesWithinDistance(user, encounter) ==
    /\ ~(user.MinIV = 0 /\ user.MinLevel = 0)
    /\ \/ user.MinLevel = 0 /\ encounter.IV >= user.MinIV
       \/ user.MinIV = 0 /\ encounter.Level >= user.MinLevel
       \/ encounter.IV >= user.MinIV /\ encounter.Level >= user.MinLevel
    /\ ~tooFar(user, user.MaxDistance, encounter)

channelMatchesEither(user, encounter) ==
    /\ ~(user.MinIV = 0 /\ user.MinLevel = 0)
    /\ \/ user.MinIV # 0 /\ encounter.IV >= user.MinIV
       \/ user.MinLevel # 0 /\ encounter.Level >= user.MinLevel

\* the test of the channel path
channelMatches(user, encounter) ==
    /\ ~(user.MinIV = 0 /\ user.MinLevel = 0)
    /\ \/ user.MinLevel = 0 /\ encounter.IV >= user.MinIV
       \/ user.MinIV = 0 /\ encounter.Level >= user.MinLevel
       \/ encounter.IV >= user.MinIV /\ encounter.Level >= user.MinLevel

effectiveMinIVUserFirst(sub, user) == IF user.MinIV = 0 THEN sub.MinIV ELSE user.MinIV

effectiveMinIV(sub, user) == IF sub.MinIV = 0 THEN user.MinIV ELSE sub.MinIV

effectiveMinLevel(sub, user) == IF sub.MinLevel = 0 THEN user.MinLevel ELSE sub.MinLevel

effectiveMaxDistance(sub, user) == IF sub.MaxDistance = 0 THEN user.MaxDistance ELSE sub.MaxDistance

subscriptionMatchesNoLevel(user, sub, encounter) ==
    /\ ~(effectiveMinIV(sub, user) > 0 /\ encounter.IV < effectiveMinIV(sub, user))
    /\ ~tooFar(user, effectiveMaxDistance(sub, user), encounter)

\* the three tests of the subscription path, none of which rejects
subscriptionMatches(user, sub, encounter) ==
    /\ ~(effectiveMinIV(sub, user) > 0 /\ encounter.IV < effectiveMinIV(sub, user))
    /\ ~(effectiveMinLevel(sub, user) > 0 /\ encounter.Level < effectiveMinLevel(sub, user))
    /\ ~tooFar(user, effectiveMaxDistance(sub, user), encounter)

isZeroIVAsHundo(encounter) == encounter.IV = 100

\* the tests that open the top-quality and the worst-quality path
isHundoIV(encounter) == encounter.IV = 100

isZeroIV(encounter) == encounter.IV = 0

RECURSIVE notifyEach(_, _, _, _, _)
\* sendEncounterNotification for each user of a list, in the list's order
notifyEach(L, list, encounter, path, fails) ==
    IF list = <<>>
    THEN L
    ELSE notifyEach(sendEncounterNotification(L, Head(list), encounter, path, fails),
                    Tail(list), encounter, path, fails)

\* the body of the loop of filterAndSendEncounters for one encounter
matchEncounter(L, idx, subscriptions, encounter, fails) ==
    LET near(u) == ~tooFar(u, u.MaxDistance, encounter)
        wanted(u) == channelMatches(u, encounter)
        subs == subscriptions[encounter.PokemonID]
        pairs == [i \in 1..Len(subs) |->
                     [sub |-> subs[i], user |-> UserAt(idx.All, subs[i].UserID)]]
        accepted(q) == subscriptionMatches(q.user, q.sub, encounter)
        chosen == SelectSeq(pairs, accepted)
        observed == [L EXCEPT !.eff = @ \cup
                        {[EncounterID |-> encounter.ID, Sub |-> q.sub,
                          MinIV |-> effectiveMinIV(q.sub, q.user),
                          MinLevel |-> effectiveMinLevel(q.sub, q.user),
                          MaxDistance |-> effectiveMaxDistance(q.sub, q.user)] :
                         q \in Range(pairs)}]
        a == IF isHundoIV(encounter)
             THEN notifyEach(observed, SelectSeq(idx.HundoIV, near), encounter, "hundo", fails)
             ELSE observed
        b == IF isZeroIV(encounter)
             THEN notifyEach(a, SelectSeq(idx.ZeroIV, near), encounter, "zero", fails)
             ELSE a
        c == notifyEach(b, SelectSeq(idx.Channels, wanted), encounter, "channel", fails)
    IN notifyEach(c, [i \in 1..Len(chosen) |-> chosen[i].user], encounter,
                  "subscription", fails)

RECURSIVE filterAndSendEncounters(_, _, _, _, _)
filterAndSendEncounters(L, idx, subscriptions, encounters, fails) ==
    IF encounters = <<>>
    THEN L
    ELSE filterAndSendEncounters(
             matchEncounter(L, idx, subscriptions, Head(encounters), fails),
             idx, subscriptions, Tail(encounters), fails)

\* a query whose bounds include the lookback threshold itself
fetchEncountersInclusive(table, t) ==
    {r \in table : /\ r.IV # IVNull
                   /\ r.Updated >= t - Lookback
                   /\ r.ExpireTimestamp >= t - Lookback}

\* the query of processEncounters on the scanner's table at time t
fetchEncounters(table, t) ==
    {r \in table : /\ r.IV # IVNull
                   /\ r.Updated > t - Lookback
                   /\ r.ExpireTimestamp > t - Lookback}

\* ---------------------------------------------------------------- cleanup

isExpiredInclusive(expiration, t) == expiration <= t

isExpiredReversed(expiration, t) == expiration > t

\* the query of cleanupMessages: expiration < now
isExpired(expiration, t) == expiration < t

\* a cleanup that deletes the record only of a message it asked the gateway
\* to delete
cleanupMessageOnlyRetracted(L, idx, message, deleteFails) ==
    IF UserAt(idx.All, message.ChatID).Cleanup
    THEN [L EXCEPT !.retract = @ \cup {message},
                   !.msgs = @ \ {message},
                   !.log = @ \o <<[Op |-> "retract", Message |-> message,
                                   OK |-> message \notin deleteFails],
                                  [Op |-> "deleteMessage", Message |-> message, OK |-> TRUE]>>]
    ELSE L

cleanupMessageAlwaysRetract(L, idx, message, deleteFails) ==
    [L EXCEPT !.retract = @ \cup {message},
              !.msgs = @ \ {message},
              !.log = @ \o <<[Op |-> "retract", Message |-> message,
                              OK |-> message \notin deleteFails],
                             [Op |-> "deleteMessage", Message |-> message, OK |-> TRUE]>>]

\* the body of the inner loop of cleanupMessages for one message record:
\* bot.Delete when the owner, looked up in users.All, has Cleanup set (the
\* gateway refuses the deletions of deleteFails; the error is logged), then
\* dbConfig.Delete(&message)
cleanupMessage(L, idx, message, deleteFails) ==
    LET user == UserAt(idx.All, message.ChatID)
        asked == IF user.Cleanup
                 THEN [L EXCEPT !.retract = @ \cup {message},
                                !.log = Append(@, [Op |-> "retract", Message |-> message,
                                                   OK |-> message \notin deleteFails])]
                 ELSE L
    IN [asked EXCEPT !.msgs = @ \ {message},
                     !.log = Append(@, [Op |-> "deleteMessage", Message |-> message,
                                        OK |-> TRUE])]

RECURSIVE cleanupEachMessage(_, _, _, _)
\* the inner loop of cleanupMessages over the message records found
cleanupEachMessage(L, idx, messages, deleteFails) ==
    IF messages = <<>>
    THEN L
    ELSE cleanupEachMessage(cleanupMessage(L, idx, Head(messages), deleteFails),
                            idx, Tail(messages), deleteFails)

\* the log entry of an operation on the ledger entry of encounter e
EncounterEvent(op, e) ==
    [Op |-> op, Message |-> [ChatID |-> 0, MessageID |-> 0, EncounterID |-> e], OK |-> TRUE]

\* the body of the outer loop of cleanupMessages for one expired encounter:
\* its message records, in the order messages[e] the query returned them
\* in, then dbConfig.Delete(&encounter), then
\* sentNotifications[encounter.ID] = nil
cleanupEncounter(L, idx, e, messages, deleteFails) ==
    LET done == cleanupEachMessage(L, idx, messages[e], deleteFails)
    IN [done EXCEPT
           !.rows[e] = NoRow,
           !.sent[e] = {},
           !.lcount[e] = [u \in UserKeys |-> 0],
           !.log = @ \o <<EncounterEvent("deleteEncounter", e), EncounterEvent("clearLedger", e)>>]

RECURSIVE cleanupEachEncounter(_, _, _, _, _)
\* the outer loop of cleanupMessages over the expired encounters found
cleanupEachEncounter(L, idx, encounters, messages, deleteFails) ==
    IF encounters = <<>>
    THEN L
    ELSE cleanupEachEncounter(cleanupEncounter(L, idx, Head(encounters), messages, deleteFails),
                              idx, Tail(encounters), messages, deleteFails)

\* a cleanup that looks for the expired encounters among those with a
\* notified set in memory
expiredEncountersNotified(L, t) ==
    {e \in EncounterIDs : L.rows[e] # NoRow /\ isExpired(L.rows[e], t) /\ L.sent[e] # {}}

\* the encounters the query of cleanupMessages finds at time t
expiredEncounters(L, t) ==
    {e \in EncounterIDs : L.rows[e] # NoRow /\ isExpired(L.rows[e], t)}

\* cleanupMessages at time t, the queries returning the expired encounters
\* in the order of encounters and the message records of encounter e as
\* messages[e]
cleanupMessages(L, idx, t, encounters, messages, deleteFails) ==
    cleanupEachEncounter(L, idx,
                         SelectSeq(encounters, LAMBDA e : e \in expiredEncounters(L, t)),
                         messages, deleteFails)

\* ------------------------------------------------------------------ state

VARIABLES
    dbUsers,              \* users table of dbConfig: id -> row
    dbSubscriptions,      \* subscriptions table of dbConfig: a set of rows
    dbEncounters,         \* encounters table of dbConfig: id -> expiration or NoRow
    dbMessages,           \* messages table of dbConfig: a set of rows
    users,                \* the global users (FilteredUsers)
    activeSubscriptions,  \* the global activeSubscriptions
    sentNotifications,    \* the global sentNotifications: id -> set of user ids
    nextMessageID,        \* gateway: the id the next message of a chat gets
    now,                  \* the clock, in seconds
    pc,                   \* where the background goroutine stands
    fetched,              \* the rows the last fetch returned
    calls,                \* the calls of sendEncounterNotification of the last matching pass
    sends,                \* the gateway sends of the last matching pass, in order
    effective,            \* the effective thresholds the last matching pass resolved
    retracted,            \* the messages the last cleanup pass asked the gateway to delete
    cleanupLog,           \* the operations of the last cleanup pass, in order
    failedRetractions,    \* the messages whose deletion the gateway has refused so far
    switchedOff,          \* the users whose HundoIV a command has switched off and none on since
    rebuilt,              \* the indices the last command (at first: main) has rebuilt
    handler,              \* a handler's goroutine that runs step by step: position and locals
    notifyCount,          \* dispatches per (encounter, user) since the process started
    ledgerCount,          \* dispatches per (encounter, user) since the entry was last discarded
    botAdmins,            \* the global botAdmins: administrator id -> the id acted for
    userStates,           \* the global userStates: sender id -> conversation state
    lastUpdate            \* the update last handled: its sender, its handler, the id acted on

vars == <<dbUsers, dbSubscriptions, dbEncounters, dbMessages, users, activeSubscriptions,
          sentNotifications, nextMessageID, now, pc, fetched, calls, sends, effective,
          retracted, cleanupLog, failedRetractions, switchedOff, rebuilt, handler,
          notifyCount, ledgerCount, botAdmins, userStates, lastUpdate>>

store == <<dbUsers, dbSubscriptions>>
indices == <<users, activeSubscriptions>>
ledger == <<dbEncounters, dbMessages, sentNotifications, nextMessageID, notifyCount, ledgerCount>>
observed == <<fetched, calls, sends, effective>>
cleaned == <<retracted, cleanupLog, failedRetractions>>
conversation == <<botAdmins, userStates, lastUpdate>>
commands == <<switchedOff, rebuilt, handler, conversation>>

\* the record the passes work on, at the start of a pass
Pass ==
    [sent |-> sentNotifications, rows |-> dbEncounters, msgs |-> dbMessages,
     next |-> nextMessageID, calls |-> {}, sends |-> <<>>, eff |-> {},
     retract |-> {}, log |-> <<>>, ncount |-> notifyCount, lcount |-> ledgerCount]

\* the administrators of BOT_ADMINS
AdminIDs == {7}

\* before any update: no sender, no handler
NoUpdate == [sender |-> 0, handler |-> <<>>, userID |-> 0, text |-> <<>>, args |-> <<>>]

\* no handler runs step by step
Idle ==
    [pc |-> "idle", userID |-> 0, location |-> [Lat |-> 0, Lng |-> 0],
     allUsers |-> <<>>, pending |-> {}, subscriptions |-> {},
     oldUsers |-> EmptyIndex, oldActive |-> EmptySubscriptions]

RECURSIVE ByPrimaryKey(_)
\* the message records S listed by chat id and message id
ByPrimaryKey(S) ==
    IF S = {}
    THEN <<>>
    ELSE LET first == CHOOSE m \in S : \A n \in S :
                          \/ m.ChatID < n.ChatID
                          \/ m.ChatID = n.ChatID /\ m.MessageID <= n.MessageID
         IN <<first>> \o ByPrimaryKey(S \ {first})

\* the stored message records of encounter e
MessagesOf(e) == {m \in dbMessages : m.EncounterID = e}

\* what the queries for the message records of each encounter can return:
\* the records in every order, or (when the order has no bearing on what is
\* examined) by primary key
MessageResults(everyOrder) ==
    IF everyOrder
    THEN {f \in [EncounterIDs -> UNION {Orderings(MessagesOf(e)) : e \in EncounterIDs}] :
             \A e \in EncounterIDs : f[e] \in Orderings(MessagesOf(e))}
    ELSE {[e \in EncounterIDs |-> ByPrimaryKey(MessagesOf(e))]}

\* the orders in which the query for the expired encounters can list the
\* encounter ids: every order, or one of them
EncounterResults(everyOrder) ==
    IF everyOrder
    THEN Orderings(EncounterIDs)
    ELSE {CHOOSE s \in Orderings(EncounterIDs) : TRUE}

\* ----------------------------------------------------------------- inputs

Subscription(u, p, iv, lvl, d) ==
    [UserID |-> u, PokemonID |-> p, MinIV |-> iv, MinLevel |-> lvl, MaxDistance |-> d]

\* the stores the process starts on when the ledger's life cycle is examined
LifecycleStores ==
    {[users |-> (1 :> [NewUser(1) EXCEPT !.HundoIV = h])
                @@ (-1001 :> [NewUser(-1001) EXCEPT !.MinIV = m, !.OnlyMap = TRUE,
                                                    !.Cleanup = FALSE]),
      subs |-> s] :
        h \in BOOLEAN, m \in {0, 60},
        s \in {{}, {Subscription(1, 16, 90, 0, 0)}}}

\* a row of the scanner's table pokemon; every row of the model is of
\* type 16, at (1, 1), of level 30 unless said otherwise
Row(e, iv, expire, updated) ==
    [ID |-> e, PokemonID |-> 16, Lat |-> 1, Lon |-> 1, IV |-> iv, Level |-> 30,
     ExpireTimestamp |-> expire, Updated |-> updated]

\* the scanner's rows at time t when the ledger's life cycle is examined:
\* fresh rows (updated 10 s ago) of both expiries, a stale row (updated
\* 40 s ago) and a row without iv
LifecycleRows(t) ==
    {Row("e1", 100, 50, t - 10), Row("e1", 100, 90, t - 10), Row("e1", 95, 50, t - 10),
     Row("e1", 100, 90, t - 40), Row("e1", IVNull, 90, t - 10),
     Row("e2", 95, 90, t - 10), Row("e2", 100, 50, t - 10)}

\* the scanner's table at time t when the query is examined.  e1 was last
\* updated exactly Lookback ago at the first tick, expires exactly Lookback
\* ago at the second and lies just inside both bounds at the third; e2 is
\* fresh at the first two ticks and has no iv at the third; later on both
\* rows are stale
FetchTable(t) ==
    CASE t = SleepSeconds ->
             {Row("e1", 100, t + 60, t - Lookback), Row("e2", 100, t + 60, t - 10)}
      [] t = 2 * SleepSeconds ->
             {Row("e1", 100, t - Lookback, t - 10), Row("e2", 100, t + 60, t - 10)}
      [] t = 3 * SleepSeconds ->
             {Row("e1", 100, t + 60, t - Lookback + 1), Row("e2", IVNull, t + 60, t - 10)}
      [] OTHER ->
             {Row("e1", 100, t + 60, t - 40), Row("e2", 100, t + 60, t - 40)}

\* the stores the process starts on when the artifacts of a dispatch are
\* examined: user 1 on the top-quality list and a channel with a quality
\* threshold, each with either setting of Stickers and of OnlyMap
SendStores ==
    {[users |-> (1 :> [NewUser(1) EXCEPT !.HundoIV = TRUE, !.Stickers = s1,
                                         !.OnlyMap = m1])
                @@ (-1001 :> [NewUser(-1001) EXCEPT !.MinIV = 60, !.Stickers = s2,
                                                    !.OnlyMap = m2]),
      subs |-> {}] :
        s1 \in BOOLEAN, m1 \in BOOLEAN, s2 \in BOOLEAN, m2 \in BOOLEAN}

\* the scanner's rows at time t when the artifacts are examined: e1 for
\* both subscribers, e2 for the channel alone
SendRows(t) == {Row("e1", 100, 90, t - 10), Row("e2", 95, 90, t - 10)}

\* the stores the process starts on when the channel path is examined: a
\* channel with every combination of thresholds, with or without
\* coordinates and a distance threshold
ChannelStores ==
    {[users |-> (-1001 :> [NewUser(-1001) EXCEPT !.MinIV = civ, !.MinLevel = clvl,
                                                 !.MaxDistance = d,
                                                 !.Latitude = c[1], !.Longitude = c[2]]),
      subs |-> {}] :
        civ \in {0, 50}, clvl \in {0, 20}, d \in {0, 120000},
        c \in {<<0, 0>>, <<1, 1>>}}

\* the thresholds given to the subscribe commands
SubscribeIVs == {0, 90}

SubscribeLevels == {0, 30}

\* the scanner's rows at time t when restarts are examined: fresh rows of
\* either expiry
RestartRows(t) ==
    {Row("e1", 100, 50, t - 10), Row("e1", 100, 90, t - 10), Row("e2", 95, 90, t - 10)}

\* the tables with at most one row per encounter id
TablesOver(rows) ==
    UNION {{{f[e] : e \in S} : f \in {g \in [S -> rows] : \A e \in S : g[e].ID = e}} :
              S \in SUBSET EncounterIDs}

\* the kinds of artifact whose sends the gateway refuses during one pass:
\* none, or location and venue (a map-only user then receives nothing, any
\* other user a part of the notification)
FailChoices == {{}, {"location", "venue"}}

\* the stores the process starts on when the matching paths are examined:
\* user 1 with every combination of opt-ins, defaults and coordinates, a
\* channel with every combination of defaults, and no subscription or one
\* of user 1 to type 16 with every combination of overrides
MatchStores ==
    {[users |-> (1 :> [NewUser(1) EXCEPT !.HundoIV = h, !.ZeroIV = z, !.MinIV = iv,
                                         !.MinLevel = lvl, !.MaxDistance = d,
                                         !.Latitude = c[1], !.Longitude = c[2]])
                @@ (-1001 :> [NewUser(-1001) EXCEPT !.MinIV = civ, !.MinLevel = clvl]),
      subs |-> s] :
        h \in BOOLEAN, z \in BOOLEAN, iv \in {0, 50}, lvl \in {0, 20},
        d \in {0, 120000}, c \in {<<0, 0>>, <<1, 1>>, <<0, 1>>},
        civ \in {0, 50}, clvl \in {0, 20},
        s \in {{}} \cup {{Subscription(1, 16, siv, slvl, sd)} :
                            siv \in {0, 30}, slvl \in {0, 25}, sd \in {0, 200000}}}

\* the scanner's rows when the matching paths are examined: type 16 with
\* qualities 0, 40 and 100, levels 10, 22 and 30, at (2, 1) or (2, 2), and
\* one row of type 19, which nobody subscribes to
MatchRows ==
    {[ID |-> "e1", PokemonID |-> 16, Lat |-> 2, Lon |-> lon, IV |-> iv, Level |-> lvl,
      ExpireTimestamp |-> 50, Updated |-> 20] :
        lon \in {1, 2}, iv \in {0, 40, 100}, lvl \in {10, 22, 30}}
    \cup {[ID |-> "e1", PokemonID |-> 19, Lat |-> 2, Lon |-> 1, IV |-> 100, Level |-> 30,
           ExpireTimestamp |-> 50, Updated |-> 20]}

\* a row of the messages table
Message(chat, id, e) == [ChatID |-> chat, MessageID |-> id, EncounterID |-> e]

\* the message records a ledger can hold when the cleanup pass is examined
CleanupMessageRows ==
    {Message(1, 1, "e1"), Message(1, 2, "e1"), Message(-1001, 1, "e1"), Message(-1001, 2, "e2")}

\* the expiry stamps of the stored encounters when the cleanup pass is
\* examined
CleanupExpiries == {50, 90}

\* the stores the process starts on when the command handlers are
\* examined: a channel with a quality threshold, and user 1 either never
\* seen or opted into both quality lists and subscribed to type 16
HandlerStores ==
    LET channel == -1001 :> [NewUser(-1001) EXCEPT !.MinIV = 60, !.OnlyMap = TRUE]
    IN {[users |-> channel, subs |-> {}],
        [users |-> channel @@ (1 :> [NewUser(1) EXCEPT !.HundoIV = TRUE, !.ZeroIV = TRUE]),
         subs |-> {Subscription(1, 16, 0, 0, 0)}]}

\* the scanner's rows at time t when the command handlers are examined
HandlerRows(t) == {Row("e1", 100, 90, t - 10), Row("e2", 0, 90, t - 10)}

\* ---------------------------------------------------------------- actions

\* main: the maps are made and the indices are loaded from the store, one
\* of stores; the clock reads t and the background goroutine stands at p
InitWith(stores, t, p) ==
    /\ \E st \in stores :
          /\ dbUsers = st.users
          /\ dbSubscriptions = st.subs
    /\ users \in getUsersByFilters(dbUsers)
    /\ activeSubscriptions \in getActiveSubscriptions(dbSubscriptions, users)
    /\ dbEncounters = [e \in EncounterIDs |-> NoRow]
    /\ dbMessages = {}
    /\ sentNotifications = [e \in EncounterIDs |-> {}]
    /\ nextMessageID = [u \in UserKeys |-> 1]
    /\ now = t
    /\ pc = p
    /\ fetched = {}
    /\ calls = {}
    /\ sends = <<>>
    /\ effective = {}
    /\ retracted = {}
    /\ cleanupLog = <<>>
    /\ failedRetractions = {}
    /\ switchedOff = {}
    /\ rebuilt = {"users", "subscriptions"}
    /\ handler = Idle
    /\ botAdmins = [id \in AdminIDs |-> id]
    /\ userStates = <<>>
    /\ lastUpdate = NoUpdate
    /\ notifyCount = [e \in EncounterIDs |-> [u \in UserKeys |-> 0]]
    /\ ledgerCount = [e \in EncounterIDs |-> [u \in UserKeys |-> 0]]

Init == InitWith(LifecycleStores, 0, "sleep")

\* the second cleanup pass is about to start on a ledger that the first
\* matching pass filled: two subscribers with either setting of Cleanup,
\* message records of encounters with a stored expiry, and the index as
\* rebuilt from the store or as a rebuild running in a handler has it
InitCleanup ==
    /\ \E c1 \in BOOLEAN, c2 \in BOOLEAN :
          dbUsers = (1 :> [NewUser(1) EXCEPT !.Cleanup = c1])
                    @@ (-1001 :> [NewUser(-1001) EXCEPT !.OnlyMap = TRUE, !.Cleanup = c2])
    /\ dbSubscriptions = {}
    /\ users \in getUsersByFilters(dbUsers) \cup getUsersByFiltersLoading(dbUsers)
    /\ activeSubscriptions \in getActiveSubscriptions(dbSubscriptions, users)
    /\ dbEncounters \in [EncounterIDs -> CleanupExpiries \cup {NoRow}]
    /\ dbMessages \in SUBSET {m \in CleanupMessageRows : dbEncounters[m.EncounterID] # NoRow}
    /\ sentNotifications = [e \in EncounterIDs |->
                               IF dbEncounters[e] = NoRow
                               THEN {}
                               ELSE {1} \cup {m.ChatID : m \in MessagesOf(e)}]
    /\ nextMessageID = [u \in UserKeys |-> 3]
    /\ now = 2 * SleepSeconds
    /\ pc = "cleanup"
    /\ fetched = {}
    /\ calls = {}
    /\ sends = <<>>
    /\ effective = {}
    /\ retracted = {}
    /\ cleanupLog = <<>>
    /\ failedRetractions = {}
    /\ switchedOff = {}
    /\ rebuilt = {"users", "subscriptions"}
    /\ handler = Idle
    /\ botAdmins = [id \in AdminIDs |-> id]
    /\ userStates = <<>>
    /\ lastUpdate = NoUpdate
    /\ notifyCount = [e \in EncounterIDs |-> [u \in UserKeys |->
                          IF u \in sentNotifications[e] THEN 1 ELSE 0]]
    /\ ledgerCount = notifyCount

\* the first matching pass is about to start: the first sleep is over and
\* the first cleanup pass found nothing
InitMatch == InitWith(MatchStores, SleepSeconds, "match")

\* a loop whose iteration goes from the sleep straight to the matching pass
SleepThenMatch ==
    /\ pc = "sleep"
    /\ now' = IF now + SleepSeconds > TimeCap THEN TimeCap ELSE now + SleepSeconds
    /\ pc' = "match"
    /\ UNCHANGED <<store, indices, ledger, observed, cleaned, commands>>

\* startBackgroundProcessing: time.Sleep(30 * time.Second)
Sleep ==
    /\ pc = "sleep"
    /\ now' = IF now + SleepSeconds > TimeCap THEN TimeCap ELSE now + SleepSeconds
    /\ pc' = "cleanup"
    /\ UNCHANGED <<store, indices, ledger, observed, cleaned, commands>>

\* startBackgroundProcessing: cleanupMessages().  With everyOrder the
\* queries return their rows in any order and the gateway refuses any set
\* of deletions; without, one order is taken and no deletion is refused
\* (the tables, the ledger and retracted do not depend on either).
CleanupMessages(everyOrder) ==
    /\ pc = "cleanup"
    /\ \E encounters \in EncounterResults(everyOrder) :
       \E messages \in MessageResults(everyOrder) :
       \E deleteFails \in (IF everyOrder THEN SUBSET dbMessages ELSE {{}}) :
          LET R == cleanupMessages(Pass, users, now, encounters, messages, deleteFails)
          IN /\ dbEncounters' = R.rows
             /\ dbMessages' = R.msgs
             /\ sentNotifications' = R.sent
             /\ ledgerCount' = R.lcount
             /\ retracted' = R.retract
             /\ cleanupLog' = R.log
             /\ failedRetractions' = failedRetractions \cup
                    {x.Message : x \in {y \in Range(R.log) : y.Op = "retract" /\ ~y.OK}}
    /\ pc' = "match"
    /\ UNCHANGED <<store, indices, nextMessageID, notifyCount, now, observed, commands>>

\* a matching pass that ends the process when the query fails
ProcessEncountersFatal(tables, failChoices) ==
    /\ pc = "match"
    /\ \/ \* the query fails
          /\ pc' = "crashed"
          /\ fetched' = {}
          /\ calls' = {}
          /\ sends' = <<>>
          /\ effective' = {}
          /\ UNCHANGED ledger
       \/ /\ pc' = "sleep"
          /\ \E table \in tables :
             \E encounters \in Orderings(fetchEncounters(table, now)) :
             \E fails \in failChoices :
                LET R == filterAndSendEncounters(Pass, users, activeSubscriptions,
                                                 encounters, fails)
                IN /\ fetched' = Range(encounters)
                   /\ calls' = R.calls
                   /\ sends' = R.sends
                   /\ effective' = R.eff
                   /\ dbEncounters' = R.rows
                   /\ dbMessages' = R.msgs
                   /\ sentNotifications' = R.sent
                   /\ nextMessageID' = R.next
                   /\ notifyCount' = R.ncount
                   /\ ledgerCount' = R.lcount
    /\ UNCHANGED <<store, indices, now, cleaned, commands>>

\* startBackgroundProcessing: processEncounters(), the scanner holding one
\* of the given tables and the gateway refusing one of the given sets of sends
ProcessEncounters(tables, failChoices) ==
    /\ pc = "match"
    /\ pc' = "sleep"
    /\ \/ \* the query fails: the error is logged
          /\ fetched' = {}
          /\ calls' = {}
          /\ sends' = <<>>
          /\ effective' = {}
          /\ UNCHANGED ledger
       \/ \E table \in tables :
          \E encounters \in Orderings(fetchEncounters(table, now)) :
          \E fails \in failChoices :
             LET R == filterAndSendEncounters(Pass, users, activeSubscriptions,
                                              encounters, fails)
             IN /\ fetched' = Range(encounters)
                /\ calls' = R.calls
                /\ sends' = R.sends
                /\ effective' = R.eff
                /\ dbEncounters' = R.rows
                /\ dbMessages' = R.msgs
                /\ sentNotifications' = R.sent
                /\ nextMessageID' = R.next
                /\ notifyCount' = R.ncount
                /\ ledgerCount' = R.lcount
    /\ UNCHANGED <<store, indices, now, cleaned, commands>>

\* what every command handler leaves behind besides its changes to the
\* store and the indices: the indices it has rebuilt are noted, and the
\* observations of the matching passes start afresh
Handled(indicesRebuilt) ==
    /\ rebuilt' = indicesRebuilt
    /\ fetched' = {}
    /\ calls' = {}
    /\ sends' = <<>>
    /\ effective' = {}
    /\ UNCHANGED <<ledger, now, pc, cleaned, handler>>

\* /subscribe by userID (the result of getUserID) with valid arguments:
\* addSubscription, then getUserPreferences
subscribe(userID, pokemonID, minIV, minLevel, maxDistance) ==
    \E r \in addSubscription(dbSubscriptions, users,
                             Subscription(userID, pokemonID, minIV, minLevel, maxDistance)) :
        /\ dbSubscriptions' = r.subs
        /\ activeSubscriptions' = r.active
        /\ dbUsers' = getUserPreferences(dbUsers, userID)
        /\ UNCHANGED <<users, switchedOff>>
        /\ Handled({"subscriptions"})

\* the text handler in state add_subscription_distance_<id>_<iv>_<level>,
\* the last step of the interactive flow, by userID with a valid distance:
\* addSubscription alone
add_subscription_distance(userID, pokemonID, minIV, minLevel, maxDistance) ==
    \E r \in addSubscription(dbSubscriptions, users,
                             Subscription(userID, pokemonID, minIV, minLevel, maxDistance)) :
        /\ dbSubscriptions' = r.subs
        /\ activeSubscriptions' = r.active
        /\ UNCHANGED <<dbUsers, users, switchedOff>>
        /\ Handled({"subscriptions"})

\* /unsubscribe by userID with a known name: the DELETE, then
\* getActiveSubscriptions, then getUserPreferences
unsubscribe(userID, pokemonID) ==
    LET subs == {s \in dbSubscriptions : ~(s.UserID = userID /\ s.PokemonID = pokemonID)}
    IN \E act \in getActiveSubscriptions(subs, users) :
        /\ dbSubscriptions' = subs
        /\ activeSubscriptions' = act
        /\ dbUsers' = getUserPreferences(dbUsers, userID)
        /\ UNCHANGED <<users, switchedOff>>
        /\ Handled({"subscriptions"})

\* /settings (and /list) by userID: getUserPreferences
settings(userID) ==
    /\ dbUsers' = getUserPreferences(dbUsers, userID)
    /\ UNCHANGED <<dbSubscriptions, indices, switchedOff>>
    /\ Handled({})

\* /start by userID: getUserPreferences, then updateUserPreference of
\* Language
start(userID) ==
    \E r \in updateUserPreference(getUserPreferences(dbUsers, userID), userID,
                                  "Language", "en") :
        /\ dbUsers' = r.db
        /\ users' = r.users
        /\ UNCHANGED <<dbSubscriptions, activeSubscriptions, switchedOff>>
        /\ Handled({"users"})

\* the button clear_subscriptions by userID: the DELETE, then
\* getActiveSubscriptions
clear_subscriptions(userID) ==
    LET subs == {s \in dbSubscriptions : s.UserID # userID}
    IN \E act \in getActiveSubscriptions(subs, users) :
        /\ dbSubscriptions' = subs
        /\ activeSubscriptions' = act
        /\ UNCHANGED <<dbUsers, users, switchedOff>>
        /\ Handled({"subscriptions"})

toggle_notificationsUsersOnly(userID) ==
    LET user == getUserPreferences(dbUsers, userID)
    IN \E r \in updateUserPreference(user, userID, "Notify", ~user[userID].Notify) :
        /\ dbUsers' = r.db
        /\ users' = r.users
        /\ UNCHANGED <<dbSubscriptions, activeSubscriptions, switchedOff>>
        /\ Handled({"users"})

\* the button toggle_notifications by userID: getUserPreferences,
\* updateUserPreference of Notify, then getActiveSubscriptions
toggle_notifications(userID) ==
    LET user == getUserPreferences(dbUsers, userID)
    IN \E r \in updateUserPreference(user, userID, "Notify", ~user[userID].Notify) :
       \E act \in getActiveSubscriptions(dbSubscriptions, r.users) :
        /\ dbUsers' = r.db
        /\ users' = r.users
        /\ activeSubscriptions' = act
        /\ UNCHANGED <<dbSubscriptions, switchedOff>>
        /\ Handled({"users", "subscriptions"})

toggle_hundo_ivUnindexed(userID) ==
    LET user == getUserPreferences(dbUsers, userID)
    IN /\ dbUsers' = [user EXCEPT ![userID].HundoIV = ~@]
       /\ switchedOff' = IF user[userID].HundoIV
                         THEN switchedOff \cup {userID}
                         ELSE switchedOff \ {userID}
       /\ UNCHANGED <<dbSubscriptions, indices>>
       /\ Handled({})

\* the button toggle_hundo_iv by userID: getUserPreferences, then
\* updateUserPreference of HundoIV
toggle_hundo_iv(userID) ==
    LET user == getUserPreferences(dbUsers, userID)
    IN \E r \in updateUserPreference(user, userID, "HundoIV", ~user[userID].HundoIV) :
        /\ dbUsers' = r.db
        /\ users' = r.users
        /\ switchedOff' = IF user[userID].HundoIV
                          THEN switchedOff \cup {userID}
                          ELSE switchedOff \ {userID}
        /\ UNCHANGED <<dbSubscriptions, activeSubscriptions>>
        /\ Handled({"users"})

\* ------------------------------------------------- texts and conversations
\* A text (c.Text(), an argument of a command) is the sequence of its
\* characters. A conversation state (a value of userStates) is the sequence
\* of the parts of the string between its underscores, in which
\* fmt.Sprintf("..._%d", n) puts the number n and from which
\* strconv.Atoi(strings.Split(state, "_")[i]) reads it back; the empty
\* string is <<>>.

DigitValue ==
    ("0" :> 0) @@ ("1" :> 1) @@ ("2" :> 2) @@ ("3" :> 3) @@ ("4" :> 4) @@
    ("5" :> 5) @@ ("6" :> 6) @@ ("7" :> 7) @@ ("8" :> 8) @@ ("9" :> 9)

\* the capital letters of the texts of the model
LowerOf ==
    ("A" :> "a") @@ ("B" :> "b") @@ ("C" :> "c") @@ ("E" :> "e") @@ ("H" :> "h") @@
    ("L" :> "l") @@ ("N" :> "n") @@ ("P" :> "p") @@ ("R" :> "r") @@ ("U" :> "u")

\* a comparison of the text as it was sent
ToLowerNot(text) == text

\* strings.ToLower
ToLower(text) ==
    [i \in 1..Len(text) |-> IF text[i] \in DOMAIN LowerOf THEN LowerOf[text[i]] ELSE text[i]]

RECURSIVE decimal(_)
\* the number a sequence of digits denotes
decimal(digits) ==
    IF digits = <<>>
    THEN 0
    ELSE 10 * decimal(SubSeq(digits, 1, Len(digits) - 1)) + DigitValue[digits[Len(digits)]]

RECURSIVE leadingDigits(_)
\* how many digits a text starts with
leadingDigits(text) ==
    IF text = <<>> \/ text[1] \notin DOMAIN DigitValue
    THEN 0
    ELSE 1 + leadingDigits(Tail(text))

RECURSIVE skipSpace(_)
\* a text without the spaces it starts with
skipSpace(text) ==
    IF text # <<>> /\ text[1] = " " THEN skipSpace(Tail(text)) ELSE text

\* a text after its sign, if it has one
afterSign(text) ==
    IF text # <<>> /\ text[1] \in {"+", "-"} THEN Tail(text) ELSE text

\* the number of the digits, with the sign of text
signedDecimal(text, digits) ==
    IF text # <<>> /\ text[1] = "-" THEN 0 - decimal(digits) ELSE decimal(digits)

\* fmt.Sscanf(text, "%d", &n): leading spaces are skipped, a sign and the
\* digits after it are read, and whatever follows the digits is left
\* unread; an error when no digit is there
Sscanf(text) ==
    LET input == skipSpace(text)
        count == leadingDigits(afterSign(input))
    IN [err |-> count = 0,
        n |-> signedDecimal(input, SubSeq(afterSign(input), 1, count))]

\* a conversion that reads the digits a text starts with
AtoiLeadingDigits(text) == Sscanf(text)

\* strconv.Atoi(text): a sign and digits, and nothing else; an error
\* otherwise
Atoi(text) ==
    LET count == leadingDigits(afterSign(text))
    IN [err |-> count = 0 \/ count # Len(afterSign(text)),
        n |-> IF count = 0 \/ count # Len(afterSign(text))
              THEN 0
              ELSE signedDecimal(text, afterSign(text))]

\* pokemonNameToID, of the master file: lower-case name -> Pokedex number
pokemonNameToID ==
    (<<"p", "i", "d", "g", "e", "y">> :> 16) @@ (<<"r", "a", "t", "t", "a", "t", "a">> :> 19)

\* getPokemonID(name)
getPokemonID(name) ==
    IF ToLower(name) \in DOMAIN pokemonNameToID
    THEN [err |-> FALSE, n |-> pokemonNameToID[ToLower(name)]]
    ELSE [err |-> TRUE, n |-> 0]

\* strings.HasPrefix, on the parts of a state
HasPrefix(state, prefix) ==
    /\ Len(state) >= Len(prefix)
    /\ SubSeq(state, 1, Len(prefix)) = prefix

\* userStates[sender]: the empty string when the key is missing
stateOf(sender) ==
    IF sender \in DOMAIN userStates THEN userStates[sender] ELSE <<>>

\* userStates[sender] = state
setState(sender, state) == (sender :> state) @@ userStates

\* getUserID(c) for an update of sender: the id an administrator acts for,
\* the sender otherwise
getUserID(sender) ==
    IF sender \in DOMAIN botAdmins /\ botAdmins[sender] # sender
    THEN botAdmins[sender]
    ELSE sender

\* the update the framework has handed to handler name: its sender, the id
\* the handler has used at the store, no text and no arguments
Updated(sender, name, userID) ==
    lastUpdate' = [sender |-> sender, handler |-> name, userID |-> userID,
                   text |-> <<>>, args |-> <<>>]

\* a handler that returns after a message to the sender
Answered ==
    /\ UNCHANGED <<store, indices, switchedOff>>
    /\ Handled({})

\* /subscribe with the arguments args (c.Args()) for an update of sender:
\* the name, then at most three numbers, each 0 when left out; a return
\* before addSubscription when no name is given, when the name is unknown
\* or when a number is none or out of its range
subscribeCommand(sender, args) ==
    LET number(i) == IF Len(args) >= i THEN Atoi(args[i]) ELSE [err |-> FALSE, n |-> 0]
    IN /\ lastUpdate' = [sender |-> sender, handler |-> <<"subscribe">>,
                         userID |-> getUserID(sender), text |-> <<>>, args |-> args]
       /\ UNCHANGED <<botAdmins, userStates>>
       /\ IF \/ Len(args) < 1
             \/ getPokemonID(args[1]).err
             \/ number(2).err \/ number(2).n < 0 \/ number(2).n > 100
             \/ number(3).err \/ number(3).n < 0 \/ number(3).n > 40
             \/ number(4).err \/ number(4).n < 0
          THEN Answered
          ELSE subscribe(getUserID(sender), getPokemonID(args[1]).n,
                         number(2).n, number(3).n, number(4).n)

\* the buttons add_subscription, set_distance, set_min_iv, set_min_level:
\* userStates[c.Sender().ID] = state
setStateButton(sender, state) ==
    /\ userStates' = setState(sender, state)
    /\ UNCHANGED botAdmins
    /\ Answered
    /\ Updated(sender, state, getUserID(sender))

\* /reset
reset(sender) ==
    /\ botAdmins' = IF sender \in DOMAIN botAdmins /\ botAdmins[sender] # sender
                    THEN [botAdmins EXCEPT ![sender] = sender]
                    ELSE botAdmins
    /\ UNCHANGED userStates
    /\ Answered
    /\ Updated(sender, <<"reset">>, sender)

\* edit_channel with no check of the sender
edit_channelUnchecked(sender, data) ==
    /\ botAdmins' = (sender :> Atoi(data).n) @@ botAdmins
    /\ dbUsers' = getUserPreferences(dbUsers, Atoi(data).n)
    /\ UNCHANGED <<userStates, dbSubscriptions, indices, switchedOff>>
    /\ Handled({})
    /\ Updated(sender, <<"edit", "channel">>, Atoi(data).n)

\* the button edit_channel with callback data: for an administrator
\* botAdmins[sender] = ParseInt(data) (0 on an error), then /settings
edit_channel(sender, data) ==
    IF sender \notin DOMAIN botAdmins
    THEN /\ UNCHANGED <<botAdmins, userStates>>
         /\ Answered
         /\ Updated(sender, <<"edit", "channel">>, sender)
    ELSE /\ botAdmins' = [botAdmins EXCEPT ![sender] = Atoi(data).n]
         /\ dbUsers' = getUserPreferences(dbUsers, Atoi(data).n)
         /\ UNCHANGED <<userStates, dbSubscriptions, indices, switchedOff>>
         /\ Handled({})
         /\ Updated(sender, <<"edit", "channel">>, Atoi(data).n)

\* the buttons broadcast and impersonate_user: the state is set for an
\* administrator alone
adminStateButton(sender, state) ==
    /\ userStates' = IF sender \in DOMAIN botAdmins
                     THEN setState(sender, state)
                     ELSE userStates
    /\ UNCHANGED botAdmins
    /\ Answered
    /\ Updated(sender, state, sender)

\* the text handler in the states set_distance, set_min_iv, set_min_level:
\* the number of the text within 0..max (max < 0: no upper bound) goes to
\* updateUserPreference for getUserID(c)
OnTextPreference(sender, text, field, max) ==
    IF Sscanf(text).err \/ Sscanf(text).n < 0 \/ (max >= 0 /\ Sscanf(text).n > max)
    THEN /\ UNCHANGED <<botAdmins, userStates>>
         /\ Answered
    ELSE \E r \in updateUserPreference(dbUsers, getUserID(sender), field, Sscanf(text).n) :
            /\ dbUsers' = r.db
            /\ users' = r.users
            /\ userStates' = setState(sender, <<>>)
            /\ UNCHANGED <<botAdmins, dbSubscriptions, activeSubscriptions, switchedOff>>
            /\ Handled({"users"})

\* the text handler in the states add_subscription_iv_<id> and
\* add_subscription_level_<id>_<iv>: the number of the text within 0..max
\* is added to the state named next
OnTextThreshold(sender, text, max, next) ==
    /\ userStates' =
          IF Sscanf(text).err \/ Sscanf(text).n < 0 \/ Sscanf(text).n > max
          THEN userStates
          ELSE setState(sender, next \o SubSeq(stateOf(sender), 4, Len(stateOf(sender)))
                                     \o <<Sscanf(text).n>>)
    /\ UNCHANGED botAdmins
    /\ Answered

\* the text handler (OnText) for a text of sender
OnText(sender, text) ==
    LET state == stateOf(sender)
    IN /\ lastUpdate' =
             [sender |-> sender, handler |-> <<"OnText">>, text |-> text, args |-> <<>>,
              userID |-> IF /\ state = <<"impersonate", "user">>
                            /\ ToLower(text) \notin {<<"a", "b", "b", "r", "u", "c", "h">>,
                                                     <<"c", "a", "n", "c", "e", "l">>}
                            /\ sender \in DOMAIN botAdmins
                            /\ ~Atoi(text).err
                         THEN Atoi(text).n
                         ELSE getUserID(sender)]
       /\ IF /\ state # <<>>
             /\ ToLower(text) \in {<<"a", "b", "b", "r", "u", "c", "h">>,
                                   <<"c", "a", "n", "c", "e", "l">>}
          THEN /\ userStates' = setState(sender, <<>>)
               /\ UNCHANGED botAdmins
               /\ Answered
          ELSE IF state = <<"add", "subscription">>
          THEN /\ userStates' = IF getPokemonID(text).err
                                THEN userStates
                                ELSE setState(sender, <<"add", "subscription", "iv",
                                                        getPokemonID(text).n>>)
               /\ UNCHANGED botAdmins
               /\ Answered
          ELSE IF HasPrefix(state, <<"add", "subscription", "iv">>)
          THEN OnTextThreshold(sender, text, 100, <<"add", "subscription", "level">>)
          ELSE IF HasPrefix(state, <<"add", "subscription", "level">>)
          THEN OnTextThreshold(sender, text, 40, <<"add", "subscription", "distance">>)
          ELSE IF HasPrefix(state, <<"add", "subscription", "distance">>)
          THEN IF Sscanf(text).err \/ Sscanf(text).n < 0
               THEN /\ UNCHANGED <<botAdmins, userStates>>
                    /\ Answered
               ELSE /\ add_subscription_distance(getUserID(sender), state[4], state[5],
                                                 state[6], Sscanf(text).n)
                    /\ userStates' = setState(sender, <<>>)
                    /\ UNCHANGED botAdmins
          ELSE IF state = <<"set", "distance">>
          THEN OnTextPreference(sender, text, "MaxDistance", -1)
          ELSE IF state = <<"set", "min", "iv">>
          THEN OnTextPreference(sender, text, "MinIV", 100)
          ELSE IF state = <<"set", "min", "level">>
          THEN OnTextPreference(sender, text, "MinLevel", 40)
          ELSE IF state = <<"broadcast">>
          THEN /\ userStates' = IF sender \in DOMAIN botAdmins
                                THEN setState(sender, <<>>)
                                ELSE userStates
               /\ UNCHANGED botAdmins
               /\ Answered
          ELSE IF state = <<"impersonate", "user">>
          THEN IF sender \notin DOMAIN botAdmins \/ Atoi(text).err
               THEN /\ UNCHANGED <<botAdmins, userStates>>
                    /\ Answered
               ELSE /\ userStates' = setState(sender, <<>>)
                    /\ botAdmins' = [botAdmins EXCEPT ![sender] = Atoi(text).n]
                    /\ dbUsers' = getUserPreferences(dbUsers, Atoi(text).n)
                    /\ UNCHANGED <<dbSubscriptions, indices, switchedOff>>
                    /\ Handled({})
          ELSE /\ UNCHANGED <<botAdmins, userStates>>
               /\ Answered

\* ------------------------------------ a handler's goroutine, step by step
\* toggle_notifications as the statements of its goroutine, between which
\* the background goroutine can run: the store accesses, then the
\* statements and loop iterations of getUsersByFilters and of
\* getActiveSubscriptions, none under a lock.

\* what a step of the handler's goroutine leaves alone
HandlerStep ==
    UNCHANGED <<dbSubscriptions, ledger, now, pc, cleaned, observed, switchedOff,
                conversation>>

\* toggle_notifications: getUserPreferences and the UPDATE of
\* updateUserPreference
toggle_notifications_update(userID) ==
    /\ pc # "crashed"
    /\ handler.pc = "idle"
    /\ dbUsers' = [getUserPreferences(dbUsers, userID) EXCEPT ![userID].Notify = ~@]
    /\ handler' = [Idle EXCEPT !.pc = "users", !.oldUsers = users,
                               !.oldActive = activeSubscriptions]
    /\ rebuilt' = {}
    /\ UNCHANGED indices
    /\ HandlerStep

\* the location handler (OnLocation) for userID (the result of getUserID):
\* updateUserPreference of Latitude
OnLocation_latitude(userID, location) ==
    /\ pc # "crashed"
    /\ handler.pc = "idle"
    /\ \E r \in updateUserPreference(dbUsers, userID, "Latitude", location.Lat) :
          /\ dbUsers' = r.db
          /\ users' = r.users
    /\ handler' = [Idle EXCEPT !.pc = "longitude", !.userID = userID,
                               !.location = location]
    /\ rebuilt' = {"users"}
    /\ UNCHANGED activeSubscriptions
    /\ HandlerStep

\* the location handler: updateUserPreference of Longitude, and the return
OnLocation_longitude ==
    /\ pc # "crashed"
    /\ handler.pc = "longitude"
    /\ \E r \in updateUserPreference(dbUsers, handler.userID, "Longitude",
                                      handler.location.Lng) :
          /\ dbUsers' = r.db
          /\ users' = r.users
    /\ handler' = Idle
    /\ rebuilt' = {"users"}
    /\ UNCHANGED activeSubscriptions
    /\ HandlerStep

\* getUsersByFilters: users = FilteredUsers{...} and dbConfig.Find(&allUsers)
getUsersByFilters_make ==
    /\ pc # "crashed"
    /\ handler.pc = "users"
    /\ users' = EmptyIndex
    /\ handler' = [handler EXCEPT !.pc = "loadUsers", !.allUsers = dbUsers,
                                  !.pending = DOMAIN dbUsers]
    /\ UNCHANGED <<dbUsers, activeSubscriptions, rebuilt>>
    /\ HandlerStep

\* getUsersByFilters: one iteration of the loop over allUsers; after the
\* last one the loop over users.All starts
getUsersByFilters_load ==
    /\ pc # "crashed"
    /\ handler.pc = "loadUsers"
    /\ \E id \in handler.pending :
          /\ users' = [users EXCEPT !.All = @ @@ (id :> handler.allUsers[id])]
          /\ handler' = IF handler.pending = {id}
                        THEN [handler EXCEPT !.pc = "listUsers",
                                             !.pending = DOMAIN handler.allUsers]
                        ELSE [handler EXCEPT !.pending = @ \ {id}]
    /\ UNCHANGED <<dbUsers, activeSubscriptions, rebuilt>>
    /\ HandlerStep

\* getUsersByFilters: one iteration of the loop over users.All; after the
\* last one the function returns and getActiveSubscriptions is called
getUsersByFilters_list ==
    /\ pc # "crashed"
    /\ handler.pc = "listUsers"
    /\ \E id \in handler.pending :
          /\ users' = listUser(users, users.All[id])
          /\ handler' = IF handler.pending = {id}
                        THEN [handler EXCEPT !.pc = "subscriptions", !.pending = {}]
                        ELSE [handler EXCEPT !.pending = @ \ {id}]
    /\ UNCHANGED <<dbUsers, activeSubscriptions, rebuilt>>
    /\ HandlerStep

\* getActiveSubscriptions: activeSubscriptions = make(...) and
\* dbConfig.Find(&subscriptions)
getActiveSubscriptions_make ==
    /\ pc # "crashed"
    /\ handler.pc = "subscriptions"
    /\ activeSubscriptions' = EmptySubscriptions
    /\ handler' = [handler EXCEPT
                      !.pc = IF dbSubscriptions = {} THEN "return" ELSE "loadSubscriptions",
                      !.subscriptions = dbSubscriptions]
    /\ UNCHANGED <<dbUsers, users, rebuilt>>
    /\ HandlerStep

\* getActiveSubscriptions: one iteration of the loop over subscriptions
getActiveSubscriptions_load ==
    /\ pc # "crashed"
    /\ handler.pc = "loadSubscriptions"
    /\ \E sub \in handler.subscriptions :
          /\ activeSubscriptions' = loadSubscription(activeSubscriptions, users, sub)
          /\ handler' = IF handler.subscriptions = {sub}
                        THEN [handler EXCEPT !.pc = "return", !.subscriptions = {}]
                        ELSE [handler EXCEPT !.subscriptions = @ \ {sub}]
    /\ UNCHANGED <<dbUsers, users, rebuilt>>
    /\ HandlerStep

\* toggle_notifications: the handler returns
toggle_notifications_return ==
    /\ pc # "crashed"
    /\ handler.pc = "return"
    /\ handler' = Idle
    /\ rebuilt' = {"users", "subscriptions"}
    /\ UNCHANGED <<dbUsers, indices>>
    /\ HandlerStep

\* the Go runtime finds the background goroutine reading a map that the
\* handler's goroutine is writing to, and ends the process
fatalConcurrentMapAccess ==
    /\ pc = "match"
    /\ handler.pc \in {"loadUsers", "loadSubscriptions"}
    /\ pc' = "crashed"
    /\ UNCHANGED <<store, indices, ledger, now, cleaned, observed, commands>>

\* the process ends between two steps of the background goroutine and is
\* started again (main): the tables and the gateway keep what they hold,
\* the maps are made anew, the indices are loaded from the store, and the
\* new process has observed nothing
Restart ==
    /\ sentNotifications' = [e \in EncounterIDs |-> {}]
    /\ users' \in getUsersByFilters(dbUsers)
    /\ activeSubscriptions' \in getActiveSubscriptions(dbSubscriptions, users')
    /\ pc' = "sleep"
    /\ fetched' = {}
    /\ calls' = {}
    /\ sends' = <<>>
    /\ effective' = {}
    /\ retracted' = {}
    /\ cleanupLog' = <<>>
    /\ failedRetractions' = {}
    /\ switchedOff' = {}
    /\ rebuilt' = {"users", "subscriptions"}
    /\ handler' = Idle
    /\ botAdmins' = [id \in AdminIDs |-> id]
    /\ userStates' = <<>>
    /\ lastUpdate' = NoUpdate
    /\ notifyCount' = [e \in EncounterIDs |-> [u \in UserKeys |-> 0]]
    /\ ledgerCount' = [e \in EncounterIDs |-> [u \in UserKeys |-> 0]]
    /\ UNCHANGED <<store, dbEncounters, dbMessages, nextMessageID, now>>

Next ==
    \/ Sleep
    \/ CleanupMessages(FALSE)
    \/ ProcessEncounters(TablesOver(LifecycleRows(now)), FailChoices)

Spec == Init /\ [][Next]_vars

\* the background goroutine reading the scanner's table FetchTable
NextFetch ==
    \/ Sleep
    \/ CleanupMessages(FALSE)
    \/ ProcessEncounters({FetchTable(now)}, FailChoices)

SpecFetch == Init /\ [][NextFetch]_vars

\* the background goroutine dispatching to subscribers of every
\* combination of Stickers and OnlyMap
InitSend == InitWith(SendStores, 0, "sleep")

NextSend ==
    \/ Sleep
    \/ CleanupMessages(FALSE)
    \/ ProcessEncounters(TablesOver(SendRows(now)), FailChoices)

SpecSend == InitSend /\ [][NextSend]_vars

\* the background goroutine whose first query fails whatever the
\* scanner's table holds
FailingFirstFetch(t) == IF t = SleepSeconds THEN {} ELSE TablesOver(LifecycleRows(t))

NextFetchFails ==
    \/ Sleep
    \/ CleanupMessages(FALSE)
    \/ ProcessEncounters(FailingFirstFetch(now), {{}})

SpecFetchFails == Init /\ [][NextFetchFails]_vars

\* the background goroutine of a process that may be restarted at any time
NextRestart ==
    \/ Sleep
    \/ CleanupMessages(FALSE)
    \/ ProcessEncounters(TablesOver(RestartRows(now)), {{}})
    \/ Restart

SpecRestart == Init /\ [][NextRestart]_vars

\* the background goroutine never stops looping
FairSpec == Spec /\ WF_vars(Next)

\* one matching pass over every store and scanner row of MatchStores and
\* MatchRows
NextMatch == ProcessEncounters(TablesOver(MatchRows), {{}})

SpecMatch == InitMatch /\ [][NextMatch]_vars

\* one matching pass over every store of ChannelStores and every scanner
\* row of MatchRows
InitChannel == InitWith(ChannelStores, SleepSeconds, "match")

SpecChannel == InitChannel /\ [][NextMatch]_vars

\* the background loop on the ledgers of InitCleanup, the scanner's table
\* being empty
NextCleanup ==
    \/ Sleep
    \/ CleanupMessages(TRUE)
    \/ ProcessEncounters({{}}, {{}})

SpecCleanup == InitCleanup /\ [][NextCleanup]_vars

\* two sleeps are over, and the scanner has returned nothing so far
InitHandlers == InitWith(HandlerStores, 2 * SleepSeconds, "sleep")

\* the background loop and, at any moment between its passes, a command of
\* a user or of an administrator acting for the channel
NextHandlers ==
    \/ Sleep
    \/ CleanupMessages(FALSE)
    \/ ProcessEncounters(TablesOver(HandlerRows(now)), {{}})
    \/ /\ UNCHANGED conversation
       /\ \E userID \in UserIDs :
             \/ subscribe(userID, 16, 0, 0, 0)
             \/ unsubscribe(userID, 16)
             \/ settings(userID)
             \/ start(userID)
             \/ clear_subscriptions(userID)
             \/ toggle_notifications(userID)
             \/ toggle_hundo_iv(userID)

SpecHandlers == InitHandlers /\ [][NextHandlers]_vars

\* the commands that change subscriptions, with every threshold of
\* SubscribeIVs and SubscribeLevels, and the notification switch
NextSubscribe ==
    /\ UNCHANGED conversation
    /\ \E userID \in UserIDs, pokemonID \in PokemonIDs :
          \/ \E minIV \in SubscribeIVs, minLevel \in SubscribeLevels :
                \/ subscribe(userID, pokemonID, minIV, minLevel, 0)
                \/ add_subscription_distance(userID, pokemonID, minIV, minLevel, 0)
          \/ unsubscribe(userID, pokemonID)
          \/ toggle_notifications(userID)

SpecSubscribe == InitHandlers /\ [][NextSubscribe]_vars

\* the senders of updates: user 1 and the administrator
Senders == {1} \cup AdminIDs

\* the stores the process starts on when the senders of updates are
\* examined: user 1 with a subscription, and a channel
AdminStores ==
    {[users |-> (1 :> NewUser(1)) @@ (-1001 :> NewUser(-1001)),
      subs |-> {Subscription(1, 16, 0, 0, 0)}]}

\* the texts sent when the senders of updates are examined: a name, a
\* number (a threshold, a distance, the id of user 1) and a word
AdminTexts == {<<"P", "i", "d", "g", "e", "y">>, <<"1">>, <<"a", "b", "c">>}

InitAdmin == InitWith(AdminStores, 2 * SleepSeconds, "sleep")

\* the updates of user 1 and of the administrator: the buttons and texts
\* of the conversations, the administrator's handlers, and clear_subscriptions
NextAdmin ==
    \E sender \in Senders :
        \/ setStateButton(sender, <<"add", "subscription">>)
        \/ setStateButton(sender, <<"set", "distance">>)
        \/ adminStateButton(sender, <<"impersonate", "user">>)
        \/ edit_channel(sender, <<"-", "1", "0", "0", "1">>)
        \/ reset(sender)
        \/ \E text \in AdminTexts : OnText(sender, text)
        \/ /\ clear_subscriptions(getUserID(sender))
           /\ UNCHANGED <<botAdmins, userStates>>
           /\ Updated(sender, <<"clear", "subscriptions">>, getUserID(sender))

SpecAdmin == InitAdmin /\ [][NextAdmin]_vars

\* the stores the process starts on when the conversations are examined:
\* user 1 without a subscription
FlowStores == {[users |-> (1 :> NewUser(1)), subs |-> {}]}

\* the texts sent during the add-subscription conversation: two known
\* names and an unknown one, numbers within and beyond the ranges, a
\* negative number, a number followed by a unit, and a word
FlowTexts ==
    {<<"P", "i", "d", "g", "e", "y">>, <<"R", "a", "t", "t", "a", "t", "a">>,
     <<"m", "e", "w">>, <<"9", "0">>, <<"3", "0">>, <<"1", "5", "0">>, <<"-", "5">>,
     <<"1", "5", "0", "m">>, <<"a", "b", "c">>}

InitFlow == InitWith(FlowStores, 2 * SleepSeconds, "sleep")

\* user 1 presses add_subscription and sends texts
NextFlow ==
    \/ setStateButton(1, <<"add", "subscription">>)
    \/ \E text \in FlowTexts : OnText(1, text)

SpecFlow == InitFlow /\ [][NextFlow]_vars

\* the texts sent when the end of a conversation is examined: a name, a
\* number, and the two words that end a conversation, in small and in
\* capital letters
CancelTexts ==
    {<<"P", "i", "d", "g", "e", "y">>, <<"9", "0">>, <<"c", "a", "n", "c", "e", "l">>,
     <<"A", "b", "b", "r", "u", "c", "h">>, <<"C", "A", "N", "C", "E", "L">>}

\* user 1 and the administrator press add_subscription, set_min_level and
\* impersonate_user and send texts
NextCancel ==
    \E sender \in Senders :
        \/ setStateButton(sender, <<"add", "subscription">>)
        \/ setStateButton(sender, <<"set", "min", "level">>)
        \/ adminStateButton(sender, <<"impersonate", "user">>)
        \/ \E text \in CancelTexts : OnText(sender, text)

SpecCancel == InitAdmin /\ [][NextCancel]_vars

\* the names given to /subscribe: a known one and an unknown one
ArgumentNames == {<<"P", "i", "d", "g", "e", "y">>, <<"m", "e", "w">>}

\* the optional arguments given to /subscribe: numbers within and beyond
\* the ranges, a negative number, a number followed by a unit, and a word
ArgumentTexts ==
    {<<"9", "0">>, <<"3", "0">>, <<"1", "5", "0">>, <<"-", "5">>,
     <<"1", "5", "0", "m">>, <<"a", "b", "c">>}

\* the argument lists of /subscribe: none, or a name and up to three
\* optional arguments
ArgumentLists ==
    {<<>>} \cup
    UNION {{<<name>> \o rest : name \in ArgumentNames, rest \in [1..k -> ArgumentTexts]} :
              k \in 0..3}

\* user 1 sends /subscribe
NextArguments == \E args \in ArgumentLists : subscribeCommand(1, args)

SpecArguments == InitFlow /\ [][NextArguments]_vars

\* handler name has run for an update of the subscriber userID, who is no
\* administrator
HandledFor(userID, name) ==
    /\ UNCHANGED <<botAdmins, userStates>>
    /\ Updated(userID, name, userID)

\* the background loop and, between its passes, the commands that add and
\* remove subscriptions and one that rebuilds the subscriber index
NextRemoval ==
    \/ Sleep
    \/ CleanupMessages(FALSE)
    \/ ProcessEncounters(TablesOver(HandlerRows(now)), {{}})
    \/ \E userID \in UserIDs :
          \/ subscribe(userID, 16, 0, 0, 0) /\ HandledFor(userID, <<"subscribe">>)
          \/ unsubscribe(userID, 16) /\ HandledFor(userID, <<"unsubscribe">>)
          \/ clear_subscriptions(userID) /\ HandledFor(userID, <<"clear", "subscriptions">>)
          \/ toggle_hundo_iv(userID) /\ HandledFor(userID, <<"toggle", "hundo", "iv">>)

SpecRemoval == InitHandlers /\ [][NextRemoval]_vars

\* the stores the process starts on when a handler's goroutine is followed
\* step by step
RaceStores == {st \in HandlerStores : 1 \in DOMAIN st.users}

InitRace == InitWith(RaceStores, 2 * SleepSeconds, "sleep")

\* the background loop and, interleaved with it, the statements of
\* toggle_notifications
NextRace ==
    \/ Sleep
    \/ CleanupMessages(FALSE)
    \/ ProcessEncounters(TablesOver(HandlerRows(now)), {{}})
    \/ \E userID \in UserIDs : toggle_notifications_update(userID)
    \/ getUsersByFilters_make
    \/ getUsersByFilters_load
    \/ getUsersByFilters_list
    \/ getActiveSubscriptions_make
    \/ getActiveSubscriptions_load
    \/ toggle_notifications_return
    \/ fatalConcurrentMapAccess

SpecRace == InitRace /\ [][NextRace]_vars

\* the locations a user sends
Locations == {[Lat |-> 1, Lng |-> 1], [Lat |-> 2, Lng |-> 2]}

\* the stores the process starts on when location updates are examined:
\* user 1 at (1, 1), opted into the top-quality list within 100 km
LocationStores ==
    {[users |-> (1 :> [NewUser(1) EXCEPT !.HundoIV = TRUE, !.MaxDistance = 100000,
                                         !.Latitude = 1, !.Longitude = 1]),
      subs |-> {}]}

\* the scanner's rows at time t when location updates are examined: fresh
\* rows of quality 100 at (2, 1) and at (1, 2), each more than 100 km from
\* (1, 1) and from (2, 2)
LocationRows(t) ==
    {[Row("e1", 100, 90, t - 10) EXCEPT !.Lat = 2],
     [Row("e2", 100, 90, t - 10) EXCEPT !.Lon = 2]}

InitLocation == InitWith(LocationStores, 2 * SleepSeconds, "sleep")

\* the background loop and, interleaved with it, the two statements of the
\* location handler
NextLocation ==
    \/ Sleep
    \/ CleanupMessages(FALSE)
    \/ ProcessEncounters(TablesOver(LocationRows(now)), {{}})
    \/ \E location \in Locations : OnLocation_latitude(1, location)
    \/ OnLocation_longitude

SpecLocation == InitLocation /\ [][NextLocation]_vars

\* ------------------------------------------------- claims: the ledger

\* the messages table holds a record of encounter e
HasMessages(e) == \E m \in dbMessages : m.EncounterID = e

\* some part of a ledger entry of encounter e exists
HasEntry(e) == dbEncounters[e] # NoRow \/ sentNotifications[e] # {} \/ HasMessages(e)

\* C1: a subscriber is dispatched a notification for an encounter id at most
\* once while the process lives, also when the encounter is still returned
\* after its expiry has passed and its ledger entry has been cleaned up.
AtMostOncePerLifetime ==
    \A e \in EncounterIDs : \A u \in UserKeys : notifyCount[e][u] <= 1

\* C2: between two cleanup passes that discard the encounter's ledger entry,
\* the side effects of a dispatch (ledger insertion, counting, gateway
\* sends) happen at most once per (encounter, subscriber), however many
\* ticks return the encounter and however many paths select the subscriber.
DispatchOncePerLedgerEntry ==
    /\ \A e \in EncounterIDs : \A u \in UserKeys :
          /\ ledgerCount[e][u] <= 1
          /\ ledgerCount[e][u] = 1 <=> u \in sentNotifications[e]
    /\ \A i, j \in DOMAIN sends :
          (/\ sends[i].UserID = sends[j].UserID
           /\ sends[i].EncounterID = sends[j].EncounterID
           /\ sends[i].Kind = sends[j].Kind) => i = j

\* a later tick returned an encounter that two paths select the subscriber
\* for: both calls were made, nothing was sent, the count stays 1
RepeatedCallsOneDispatch ==
    \E e \in EncounterIDs : \E u \in UserIDs :
        /\ pc = "sleep"
        /\ [EncounterID |-> e, UserID |-> u, Path |-> "hundo"] \in calls
        /\ [EncounterID |-> e, UserID |-> u, Path |-> "subscription"] \in calls
        /\ \A i \in DOMAIN sends : ~(sends[i].EncounterID = e /\ sends[i].UserID = u)
        /\ ledgerCount[e][u] = 1

\* a stored subscription whose subscriber accepts notifications and has no
\* coordinates, and whose effective thresholds the fetched row r satisfies
Qualifies(sub, r) ==
    /\ sub.UserID \in DOMAIN dbUsers
    /\ sub.PokemonID = r.PokemonID
    /\ LET u == dbUsers[sub.UserID]
           minIV == IF sub.MinIV # 0 THEN sub.MinIV ELSE u.MinIV
           minLevel == IF sub.MinLevel # 0 THEN sub.MinLevel ELSE u.MinLevel
       IN /\ u.Notify
          /\ u.Latitude = 0 /\ u.Longitude = 0
          /\ r.IV >= minIV
          /\ r.Level >= minLevel

\* C3: a subscriber with notifications on and no coordinates, holding a
\* subscription that a fetched encounter satisfies, is dispatched exactly
\* one notification for it in the first tick that returns it and none in a
\* later tick: after any tick that returned it, the subscriber has been
\* dispatched that encounter exactly once.
SubscriberNotifiedExactlyOnce ==
    \A r \in fetched : \A sub \in dbSubscriptions :
        Qualifies(sub, r) => notifyCount[r.ID][sub.UserID] = 1

\* C9: a cleanup pass at time now leaves every ledger entry whose expiry is
\* >= now untouched (row, message records, notified set) and removes, for
\* every entry whose expiry is < now, the row, all its message records and
\* its notified set.
CleanupDiscardsOnlyExpired ==
    [][pc = "cleanup" =>
          \A e \in EncounterIDs :
              IF dbEncounters[e] # NoRow /\ dbEncounters[e] < now
              THEN /\ dbEncounters'[e] = NoRow
                   /\ \A m \in dbMessages' : m.EncounterID # e
                   /\ sentNotifications'[e] = {}
              ELSE /\ dbEncounters'[e] = dbEncounters[e]
                   /\ {m \in dbMessages' : m.EncounterID = e}
                          = {m \in dbMessages : m.EncounterID = e}
                   /\ sentNotifications'[e] = sentNotifications[e]]_vars

\* a cleanup pass has just discarded one entry and kept another, which
\* expires exactly now
CleanupKeptAndDiscarded ==
    /\ pc = "match"
    /\ \E m \in retracted :
          /\ dbEncounters[m.EncounterID] = NoRow
          /\ ~HasMessages(m.EncounterID)
    /\ \E e \in EncounterIDs :
          /\ dbEncounters[e] = now
          /\ sentNotifications[e] # {}
          /\ HasMessages(e)

\* C10: every ledger entry that is created is eventually discarded: once
\* the clock has passed its expiry and a further tick runs, no row, no
\* notified set and no message record of that encounter exists; and a
\* cleanup pass leaves no row behind whose expiry has passed.
EntryEventuallyDiscarded ==
    /\ \A e \in EncounterIDs : HasEntry(e) ~> ~HasEntry(e)
    /\ [](pc = "match" => \A e \in EncounterIDs :
                             dbEncounters[e] = NoRow \/ dbEncounters[e] >= now)

\* the clock has stopped, an entry was discarded by the last cleanup pass
\* and nothing of any entry is left
AllEntriesDiscarded ==
    /\ now = TimeCap
    /\ retracted # {}
    /\ \A e \in EncounterIDs : ~HasEntry(e)

\* ------------------------------------------- claims: the cleanup pass

\* the positions of the last cleanup pass's log at which operation op was
\* applied to message record m
LoggedAt(log, op, m) == {i \in DOMAIN log : log[i].Op = op /\ log[i].Message = m}

\* C11: in a cleanup pass, for every message record of an expired
\* encounter, the gateway is asked to delete the message exactly once if the
\* owner has auto-cleanup set in the subscriber index and not at all
\* otherwise (flag off, or owner missing from the index); the record is
\* deleted in every case, also when the gateway refuses; no record whose
\* deletion the gateway refused earlier is handled again; and the
\* encounter's row and notified set are discarded after its message records.
RetractionIffAutoCleanup ==
    [][pc = "cleanup" =>
          LET expired == {e \in EncounterIDs : dbEncounters[e] # NoRow /\ dbEncounters[e] < now}
              found == {m \in dbMessages : m.EncounterID \in expired}
              log == cleanupLog'
          IN /\ \A m \in found :
                   /\ Cardinality(LoggedAt(log, "retract", m))
                          = IF UserAt(users.All, m.ChatID).Cleanup THEN 1 ELSE 0
                   /\ Cardinality(LoggedAt(log, "deleteMessage", m)) = 1
                   /\ m \notin dbMessages'
                   /\ m \notin failedRetractions
                   /\ \A i \in LoggedAt(log, "deleteMessage", m) :
                      \A k \in DOMAIN log :
                          (/\ log[k].Op \in {"deleteEncounter", "clearLedger"}
                           /\ log[k].Message.EncounterID = m.EncounterID) => i < k
             /\ \A i \in DOMAIN log :
                   log[i].Op \in {"retract", "deleteMessage"} => log[i].Message \in found
             /\ \A e \in expired :
                   /\ dbEncounters'[e] = NoRow
                   /\ sentNotifications'[e] = {}
                   /\ \E i, k \in DOMAIN log :
                         /\ i < k
                         /\ log[i] = EncounterEvent("deleteEncounter", e)
                         /\ log[k] = EncounterEvent("clearLedger", e)]_vars

\* the gateway has refused a deletion, and the last pass discarded,
\* without asking the gateway, the record of an owner whose auto-cleanup is
\* off; no message record is left
RefusedAndUnaskedDiscarded ==
    /\ pc = "match"
    /\ failedRetractions # {}
    /\ \E i \in DOMAIN cleanupLog :
          /\ cleanupLog[i].Op = "deleteMessage"
          /\ cleanupLog[i].Message.ChatID \in DOMAIN users.All
          /\ ~users.All[cleanupLog[i].Message.ChatID].Cleanup
          /\ cleanupLog[i].Message \notin retracted
    /\ dbMessages = {}

\* ------------------------------------------- claims: the indices

\* the three lists of index idx hold exactly the rows of db with Notify set
\* and the flag or channel id of the list
ListsProject(idx, db) ==
    /\ Range(idx.HundoIV) = {db[id] : id \in {i \in DOMAIN db : db[i].Notify /\ db[i].HundoIV}}
    /\ Range(idx.ZeroIV) = {db[id] : id \in {i \in DOMAIN db : db[i].Notify /\ db[i].ZeroIV}}
    /\ Range(idx.Channels) = {db[id] : id \in {i \in DOMAIN db : db[i].Notify /\ IsChannelID(i)}}

\* C12: between commands the subscriber index is the projection of the
\* stored users and the subscription index holds, per type, the stored
\* subscriptions of the users whose stored Notify is true, also after a
\* first command of a sender without a row.
IndicesMatchStore ==
    /\ users.All = dbUsers
    /\ ListsProject(users, dbUsers)
    /\ \A p \in PokemonIDs :
          Range(activeSubscriptions[p]) =
              {s \in dbSubscriptions : /\ s.PokemonID = p
                                       /\ s.UserID \in DOMAIN dbUsers
                                       /\ dbUsers[s.UserID].Notify}

\* a list holds none of its elements twice
NoDuplicates(list) == Len(list) = Cardinality(Range(list))

\* index idx holds user id in none of its three lists
InNoList(idx, id) ==
    \A u \in Range(idx.HundoIV) \cup Range(idx.ZeroIV) \cup Range(idx.Channels) : u.ID # id

\* the matching pass now taken dispatches nothing to user id and does not
\* call the dispatch function for it
NothingDispatchedTo(id) ==
    /\ \A c \in calls' : c.UserID # id
    /\ \A e \in EncounterIDs : notifyCount'[e][id] = notifyCount[e][id]

RebuildIsAtomic ==
    [][(pc = "match" /\ pc' = "sleep" /\ fetched' # {}) =>
          /\ \/ handler.pc # "idle" /\ users = handler.oldUsers
             \/ users \in getUsersByFilters(dbUsers)
          /\ \/ handler.pc # "idle" /\ activeSubscriptions = handler.oldActive
             \/ \E idx \in getUsersByFilters(dbUsers) :
                   activeSubscriptions \in getActiveSubscriptions(dbSubscriptions, idx)]_vars

\* ------------------------------------------- claims: the matching paths

\* sendEncounterNotification was called for row r and user id u on path p
Called(r, u, p) == [EncounterID |-> r.ID, UserID |-> u, Path |-> p] \in calls

\* the threshold in force for an override v and a default d
Resolved(v, d) == IF v # 0 THEN v ELSE d

\* user u has both coordinates, the threshold d is set and row r lies
\* beyond it
BeyondDistance(u, d, r) ==
    /\ u.Latitude # 0 /\ u.Longitude # 0
    /\ d > 0
    /\ HaversineTable[<<u.Latitude, u.Longitude, r.Lat, r.Lon>>] > d

\* C4: on the subscription path the dispatch function is called if and
\* only if none of these holds: the effective minimum quality is > 0 and
\* the quality is below it; the effective minimum level is > 0 and the
\* level is below it; the subscriber has both coordinates, the effective
\* maximum distance is > 0 and the distance exceeds it.
SubscriptionPathCalledIff ==
    \A r \in fetched : \A sub \in Range(activeSubscriptions[r.PokemonID]) :
        LET u == UserAt(users.All, sub.UserID)
            minIV == Resolved(sub.MinIV, u.MinIV)
            minLevel == Resolved(sub.MinLevel, u.MinLevel)
            maxDistance == Resolved(sub.MaxDistance, u.MaxDistance)
        IN Called(r, u.ID, "subscription") <=>
               ~ \/ minIV > 0 /\ r.IV < minIV
                 \/ minLevel > 0 /\ r.Level < minLevel
                 \/ BeyondDistance(u, maxDistance, r)

\* the subscription path called for a row whose quality and level meet
\* thresholds that are set, within a distance threshold that is set
SubscriptionPathCalled ==
    \E r \in fetched : \E sub \in Range(activeSubscriptions[r.PokemonID]) :
        LET u == UserAt(users.All, sub.UserID)
        IN /\ Called(r, u.ID, "subscription")
           /\ Resolved(sub.MinIV, u.MinIV) > 0
           /\ Resolved(sub.MinLevel, u.MinLevel) > 0
           /\ Resolved(sub.MaxDistance, u.MaxDistance) > 0
           /\ u.Latitude # 0 /\ u.Longitude # 0

\* C5: in each of the three dimensions the effective threshold of the
\* subscription path is the override v when v # 0 and the subscriber's
\* default d otherwise: (0, 50) gives 50, (30, 50) gives 30, and (0, 0)
\* gives 0, which imposes no constraint.
EffectiveThresholdResolution ==
    \A x \in effective :
        LET u == UserAt(users.All, x.Sub.UserID)
        IN /\ x.MinIV = Resolved(x.Sub.MinIV, u.MinIV)
           /\ x.MinLevel = Resolved(x.Sub.MinLevel, u.MinLevel)
           /\ x.MaxDistance = Resolved(x.Sub.MaxDistance, u.MaxDistance)
           /\ (x.Sub.MinIV = 0 /\ u.MinIV = 50) => x.MinIV = 50
           /\ (x.Sub.MinIV = 30 /\ u.MinIV = 50) => x.MinIV = 30
           /\ (x.MinIV = 0 /\ x.MinLevel = 0 /\ x.MaxDistance = 0)
                  => [EncounterID |-> x.EncounterID, UserID |-> u.ID,
                      Path |-> "subscription"] \in calls

\* a pass resolved an override of 30 against a default of 50 in quality,
\* an unset override against a default of 20 in level, and two unset
\* values in distance
ResolvedOverrideAndDefault ==
    \E x \in effective :
        LET u == UserAt(users.All, x.Sub.UserID)
        IN /\ x.Sub.MinIV = 30 /\ u.MinIV = 50 /\ x.MinIV = 30
           /\ x.Sub.MinLevel = 0 /\ u.MinLevel = 20 /\ x.MinLevel = 20
           /\ x.Sub.MaxDistance = 0 /\ u.MaxDistance = 0 /\ x.MaxDistance = 0

\* C6: on the three distance-gated paths a subscriber whose latitude and
\* longitude are both 0 is never rejected because of distance, whatever
\* threshold applies and wherever the encounter lies.
NoCoordinatesNoDistanceGate ==
    \A r \in fetched :
        /\ \A u \in Range(users.HundoIV) :
              (u.Latitude = 0 /\ u.Longitude = 0 /\ r.IV = 100) => Called(r, u.ID, "hundo")
        /\ \A u \in Range(users.ZeroIV) :
              (u.Latitude = 0 /\ u.Longitude = 0 /\ r.IV = 0) => Called(r, u.ID, "zero")
        /\ \A sub \in Range(activeSubscriptions[r.PokemonID]) :
              LET u == UserAt(users.All, sub.UserID)
                  minIV == Resolved(sub.MinIV, u.MinIV)
                  minLevel == Resolved(sub.MinLevel, u.MinLevel)
              IN (/\ u.Latitude = 0 /\ u.Longitude = 0
                  /\ ~(minIV > 0 /\ r.IV < minIV)
                  /\ ~(minLevel > 0 /\ r.Level < minLevel))
                     => Called(r, u.ID, "subscription")

\* a subscriber without coordinates, with a default and an override
\* distance threshold both set and both below the distance from (0, 0) to
\* the encounter, was called on the top-quality and the subscription path
NoCoordinatesCalledDespiteThreshold ==
    \E r \in fetched : \E sub \in Range(activeSubscriptions[r.PokemonID]) :
        LET u == UserAt(users.All, sub.UserID)
        IN /\ u.Latitude = 0 /\ u.Longitude = 0
           /\ u.MaxDistance > 0 /\ sub.MaxDistance > 0
           /\ HaversineTable[<<0, 0, r.Lat, r.Lon>>] > sub.MaxDistance
           /\ HaversineTable[<<0, 0, r.Lat, r.Lon>>] > u.MaxDistance
           /\ Called(r, u.ID, "hundo")
           /\ Called(r, u.ID, "subscription")

\* C7: a member of the top-quality (worst-quality) list has the dispatch
\* function called for an encounter through that list if and only if the
\* quality is 100 (0) and it is not the case that the member has both
\* coordinates, a default distance threshold > 0 and a distance above it.
QualityListsCalledIff ==
    /\ \A r \in fetched :
          /\ \A u \in Range(users.HundoIV) :
                Called(r, u.ID, "hundo") <=>
                    (r.IV = 100 /\ ~BeyondDistance(u, u.MaxDistance, r))
          /\ \A u \in Range(users.ZeroIV) :
                Called(r, u.ID, "zero") <=>
                    (r.IV = 0 /\ ~BeyondDistance(u, u.MaxDistance, r))
    /\ \A c \in calls :
          /\ c.Path = "hundo" => \E u \in Range(users.HundoIV) : u.ID = c.UserID
          /\ c.Path = "zero" => \E u \in Range(users.ZeroIV) : u.ID = c.UserID

\* a member of both lists with coordinates and a threshold was called
\* through the worst-quality list for a row of quality 0 within the
\* threshold, and not through the top-quality list
WorstQualityListCalled ==
    \E r \in fetched : \E u \in Range(users.ZeroIV) :
        /\ u \in Range(users.HundoIV)
        /\ u.Latitude # 0 /\ u.Longitude # 0 /\ u.MaxDistance > 0
        /\ r.IV = 0
        /\ Called(r, u.ID, "zero")
        /\ ~Called(r, u.ID, "hundo")

\* C8: for every subscriber of the channel list: no dispatch when its
\* default quality and level thresholds are both 0; when only the level is
\* set, dispatch iff level >= it; when only the quality is set, dispatch iff
\* quality >= it; when both are set, dispatch iff both are met.
ChannelPathCalledIff ==
    \A r \in fetched : \A u \in Range(users.Channels) :
        Called(r, u.ID, "channel") <=>
            CASE u.MinIV = 0 /\ u.MinLevel = 0 -> FALSE
              [] u.MinIV = 0 /\ u.MinLevel # 0 -> r.Level >= u.MinLevel
              [] u.MinIV # 0 /\ u.MinLevel = 0 -> r.IV >= u.MinIV
              [] OTHER -> r.IV >= u.MinIV /\ r.Level >= u.MinLevel

\* a channel with both thresholds set was called for a row that meets both
ChannelBothThresholdsCalled ==
    \E r \in fetched : \E u \in Range(users.Channels) :
        /\ u.MinIV # 0 /\ u.MinLevel # 0
        /\ r.IV >= u.MinIV /\ r.Level >= u.MinLevel
        /\ Called(r, u.ID, "channel")

\* C18: the background goroutine starts with the sleep and then repeats
\* sleep, cleanup pass, matching pass in this order: the sleep lasts
\* SleepSeconds and does nothing else, the cleanup pass has discarded every
\* expired entry when the matching pass starts, the matching pass leaves the
\* cleanup's results alone, and no step belongs to two passes.
BackgroundLoopOrder ==
    /\ pc = "sleep" /\ fetched = {} /\ cleanupLog = <<>>
    /\ [][/\ pc = "sleep" =>
               /\ pc' = "cleanup"
               /\ now' = now + SleepSeconds \/ now' = TimeCap
               /\ UNCHANGED <<ledger, observed, cleaned>>
          /\ pc = "cleanup" =>
               /\ pc' = "match"
               /\ now' = now
               /\ \A e \in EncounterIDs :
                      dbEncounters'[e] = NoRow \/ ~isExpired(dbEncounters'[e], now)
               /\ UNCHANGED <<observed, nextMessageID, notifyCount>>
          /\ pc = "match" =>
               /\ pc' = "sleep"
               /\ now' = now
               /\ UNCHANGED cleaned]_vars

\* the second iteration is over: its cleanup pass has discarded an entry
\* and its matching pass has then dispatched
SecondIterationDone ==
    /\ pc = "sleep"
    /\ now = 2 * SleepSeconds
    /\ cleanupLog # <<>>
    /\ sends # <<>>

\* the sends of the last matching pass to subscriber u for encounter e
SendsTo(e, u) ==
    {i \in DOMAIN sends : sends[i].EncounterID = e /\ sends[i].UserID = u}

\* C19: a dispatch whose gateway sends fail, some or all, has nevertheless
\* recorded the pair in the ledger (expiry row and notified set) when the
\* matching pass ends, and a matching pass sends nothing to a subscriber
\* for an encounter whose ledger entry already holds the subscriber.
FailedSendsAreNotRetried ==
    [][pc = "match" =>
          /\ \A i \in DOMAIN sends' :
                 ~sends'[i].OK =>
                     /\ sends'[i].UserID \in sentNotifications'[sends'[i].EncounterID]
                     /\ dbEncounters'[sends'[i].EncounterID] # NoRow
          /\ \A e \in EncounterIDs : \A u \in sentNotifications[e] :
                 \A i \in DOMAIN sends' :
                     ~(sends'[i].EncounterID = e /\ sends'[i].UserID = u)]_vars

\* the channel is in the ledger entry of an encounter without having a
\* message record of it, so every send of its dispatch failed; the pass
\* just ended called the dispatch function for the pair again and sent
\* nothing
FailedDispatchCalledAgain ==
    \E e \in EncounterIDs : \E u \in UserKeys :
        /\ pc = "sleep"
        /\ u \in sentNotifications[e]
        /\ \A m \in dbMessages : ~(m.EncounterID = e /\ m.ChatID = u)
        /\ \E c \in calls : c.EncounterID = e /\ c.UserID = u
        /\ SendsTo(e, u) = {}

\* C20: when every gateway send of the dispatches of a matching pass for an
\* encounter has failed and no message record of the encounter exists (no
\* dispatch for it succeeded before), the encounter has no ledger entry
\* after the pass, neither the stored expiry row nor the notified set.
NoLedgerEntryWithoutSuccessfulSend ==
    \A e \in EncounterIDs :
        (/\ pc = "sleep"
         /\ \E i \in DOMAIN sends : sends[i].EncounterID = e
         /\ \A i \in DOMAIN sends : sends[i].EncounterID = e => ~sends[i].OK
         /\ ~HasMessages(e))
        => dbEncounters[e] = NoRow /\ sentNotifications[e] = {}

\* the sends of a pass as attempts, whatever the gateway answered
Attempts(S) ==
    [i \in DOMAIN S |-> [UserID |-> S[i].UserID, EncounterID |-> S[i].EncounterID,
                         Kind |-> S[i].Kind]]

\* C21: a matching pass in which the gateway refuses sends makes the same
\* calls of the dispatch function, records the same ledger entries and
\* attempts the same sends in the same order as the pass over the same
\* batch would with no send refused; only the answers of the refused sends
\* and their message records differ.
SendFailureDoesNotAbort ==
    [][(pc = "match" /\ fetched' # {}) =>
          \E encounters \in Orderings(fetched') :
              LET R == filterAndSendEncounters(Pass, users, activeSubscriptions,
                                               encounters, {})
              IN /\ calls' = R.calls
                 /\ sentNotifications' = R.sent
                 /\ dbEncounters' = R.rows
                 /\ notifyCount' = R.ncount
                 /\ Attempts(sends') = Attempts(R.sends)
                 /\ \A i \in DOMAIN sends' : sends'[i].OK => R.sends[i].OK]_vars

\* a pass in which a send to one subscriber was refused and later sends
\* went out: the next artifact of the same dispatch, and an artifact for
\* another encounter
RefusedSendThenOthers ==
    \E i, j, k \in DOMAIN sends :
        /\ pc = "sleep"
        /\ i < j /\ i < k
        /\ ~sends[i].OK
        /\ sends[j].OK
        /\ sends[j].UserID = sends[i].UserID /\ sends[j].EncounterID = sends[i].EncounterID
        /\ sends[k].EncounterID # sends[i].EncounterID

\* C22: the expiry recorded for an encounter is fixed when its ledger entry
\* is created: a matching pass leaves the stored expiry of every encounter
\* that has a row unchanged, whatever expiry the scanner reports now.
RecordedExpiryIsFixed ==
    [][pc = "match" =>
          \A e \in EncounterIDs :
              dbEncounters[e] # NoRow => dbEncounters'[e] = dbEncounters[e]]_vars

\* C23: when a cleanup pass has run, no message record is left whose
\* encounter has a stored expiry before the time of the pass, whether or
\* not the scanner still returns the encounter and whether or not the
\* process that dispatched it is the one that runs the pass (after a
\* restart the notified sets are empty).
CleanupByPersistedExpiry ==
    pc = "match" =>
        \A m \in dbMessages :
            ~(/\ dbEncounters[m.EncounterID] # NoRow
              /\ isExpired(dbEncounters[m.EncounterID], now))

\* the first cleanup pass of a restarted process has deleted a message
\* record of an encounter that this process never dispatched
CleanedUpAfterRestart ==
    /\ pc = "match"
    /\ \E i \in DOMAIN cleanupLog :
          /\ cleanupLog[i].Op = "deleteMessage"
          /\ \A u \in UserKeys : notifyCount[cleanupLog[i].Message.EncounterID][u] = 0

\* two subscriptions of the same subscriber to the same type
SamePair(s, t) == s.UserID = t.UserID /\ s.PokemonID = t.PokemonID

OnlyFreshEncountersMatched ==
    pc = "sleep" =>
        /\ \A r \in fetched :
              /\ r.IV # IVNull
              /\ r.Updated > now - Lookback
              /\ r.ExpireTimestamp > now - Lookback
        /\ \A r \in FetchTable(now) :
              (\/ r.IV = IVNull
               \/ r.Updated <= now - Lookback
               \/ r.ExpireTimestamp <= now - Lookback)
              => /\ r \notin fetched
                 /\ \A c \in calls : c.EncounterID # r.ID
                 /\ \A i \in DOMAIN sends : sends[i].EncounterID # r.ID

\* a pass has dispatched the fresh row while the table held a row that
\* expired exactly Lookback ago
BoundaryRowLeftOut ==
    /\ pc = "sleep"
    /\ \E r \in FetchTable(now) : r.ExpireTimestamp = now - Lookback /\ r.IV # IVNull
    /\ \E c \in calls : c.EncounterID = "e2"

\* the kinds of the sends in S to subscriber u for encounter e, in order
KindsTo(S, e, u) ==
    LET mine == SelectSeq(S, LAMBDA x : x.EncounterID = e /\ x.UserID = u)
    IN [i \in DOMAIN mine |-> mine[i].Kind]

\* C26: a matching pass issues, for every pair it adds to the ledger, one
\* venue send and nothing else when the subscriber is in pin-only mode, and
\* otherwise a location send followed by a text send, preceded by a
\* sticker send exactly when the subscriber's Stickers is on; for every
\* other pair it issues no send.
ArtifactsOfDispatch ==
    [][pc = "match" =>
          \A e \in EncounterIDs : \A u \in UserKeys :
              KindsTo(sends', e, u) =
                  IF u \in sentNotifications'[e] \ sentNotifications[e]
                  THEN IF UserAt(users.All, u).OnlyMap THEN <<"venue">>
                       ELSE IF UserAt(users.All, u).Stickers
                            THEN <<"sticker", "location", "message">>
                            ELSE <<"location", "message">>
                  ELSE <<>>]_vars

\* one pass has dispatched to a pin-only subscriber and to a subscriber
\* with Stickers off
VenueAndNoSticker ==
    \E e \in EncounterIDs :
        /\ pc = "sleep"
        /\ KindsTo(sends, e, 1) = <<"location", "message">>
        /\ KindsTo(sends, e, -1001) = <<"venue">>

\* C27: a matching pass keeps the message records it finds and adds, for
\* every subscriber and encounter, as many records (chat id, message id,
\* encounter id) as sends to that pair succeeded: one per delivered
\* artifact, none for a refused send.
OneRecordPerDeliveredArtifact ==
    [][pc = "match" =>
          /\ dbMessages \subseteq dbMessages'
          /\ \A e \in EncounterIDs : \A u \in UserKeys :
                Cardinality({m \in dbMessages' \ dbMessages :
                                m.ChatID = u /\ m.EncounterID = e})
                  = Cardinality({i \in DOMAIN sends' :
                                    /\ sends'[i].OK
                                    /\ sends'[i].UserID = u
                                    /\ sends'[i].EncounterID = e})]_vars

\* a dispatch of three artifacts of which the location was refused has
\* left two message records
TwoRecordsOfThreeSends ==
    \E e \in EncounterIDs :
        /\ pc = "sleep"
        /\ \E i \in SendsTo(e, 1) : ~sends[i].OK
        /\ Cardinality(SendsTo(e, 1)) = 3
        /\ Cardinality({m \in dbMessages : m.ChatID = 1 /\ m.EncounterID = e}) = 2

\* C28: a matching pass whose query fails (nothing is fetched) calls the
\* dispatch function for nobody, sends nothing, leaves the ledger, the
\* message records, the store and the indices as they are, and returns to
\* the sleep, from where the loop goes on.
FetchFailureSkipsTick ==
    [][(pc = "match" /\ fetched' = {}) =>
          /\ pc' = "sleep"
          /\ calls' = {}
          /\ sends' = <<>>
          /\ UNCHANGED <<ledger, store, indices, now, cleaned>>]_vars

\* the query of the first tick failed, and the second tick has fetched
\* and dispatched
DispatchedAfterFailedFetch ==
    /\ pc = "sleep"
    /\ now = 2 * SleepSeconds
    /\ fetched # {}
    /\ \E i \in DOMAIN sends : sends[i].OK

\* C29: every call of the dispatch function in a matching pass is for a
\* subscriber that the Subscriber Index of that moment holds with
\* notifications on, also while a handler rebuilds the indices; no call is
\* for the zero-valued subscriber of id 0.
DispatchOnlyToIndexedSubscribers ==
    [][(pc = "match" /\ pc' = "sleep") =>
          \A c \in calls' :
              /\ c.UserID # 0
              /\ c.UserID \in DOMAIN users.All
              /\ users.All[c.UserID].Notify]_vars

\* C30: between ticks every message record is of an encounter that has a
\* stored expiry row, and so is every encounter with a non-empty notified
\* set; no message record is left without the row by which the cleanup
\* pass would find it.
RecordsHaveLedgerRow ==
    pc = "sleep" =>
        /\ \A m \in dbMessages : dbEncounters[m.EncounterID] # NoRow
        /\ \A e \in EncounterIDs : sentNotifications[e] # {} => dbEncounters[e] # NoRow

\* a cleanup pass has discarded one ledger entry, and the following
\* matching pass has left message records of an entry with its row
RecordsAfterCleanup ==
    /\ pc = "sleep"
    /\ cleanupLog # <<>>
    /\ dbMessages # {}
    /\ \E e \in EncounterIDs : sentNotifications[e] # {} /\ ~HasMessages(e)

\* C31: for every channel and fetched row (thresholds, quality and level
\* are not negative) the channel path calls the dispatch function exactly
\* when a threshold is set, the quality is at least the quality threshold
\* and the level is at least the level threshold; the channel's
\* coordinates and distance threshold and the row's location play no part.
ChannelPathIsConjunction ==
    \A r \in fetched : \A u \in Range(users.Channels) :
        Called(r, u.ID, "channel") <=>
            /\ u.MinIV > 0 \/ u.MinLevel > 0
            /\ r.IV >= u.MinIV
            /\ r.Level >= u.MinLevel

\* a channel with coordinates and a distance threshold was called for a
\* row that lies beyond the threshold
DistantChannelCalled ==
    \E r \in fetched : \E u \in Range(users.Channels) :
        /\ u.Latitude # 0 /\ u.Longitude # 0 /\ u.MaxDistance > 0
        /\ haversine(u.Latitude, u.Longitude, r.Lat, r.Lon) > u.MaxDistance
        /\ u.MinIV > 0 /\ u.MinLevel = 0
        /\ Called(r, u.ID, "channel")

\* the rows and the subscriptions of every subscriber other than id are,
\* after the step, what they were before it
OthersUnchanged(id) ==
    /\ DOMAIN dbUsers' \ {id} = DOMAIN dbUsers \ {id}
    /\ \A u \in DOMAIN dbUsers \ {id} : dbUsers'[u] = dbUsers[u]
    /\ {s \in dbSubscriptions' : s.UserID # id} = {s \in dbSubscriptions : s.UserID # id}

\* C32: the keys of botAdmins are the administrators of the start for
\* ever; a handler run for a sender who is not one of them uses the
\* sender's own id at the store, changes no row and no subscription of
\* another subscriber and leaves botAdmins alone; and the id an
\* administrator acts for changes only in the handlers edit_channel and
\* /reset and in the text handler in state impersonate_user, run for an
\* administrator.
NonAdminsActOnThemselves ==
    /\ [](DOMAIN botAdmins = AdminIDs)
    /\ [][lastUpdate'.sender \notin AdminIDs =>
             /\ lastUpdate'.userID = lastUpdate'.sender
             /\ OthersUnchanged(lastUpdate'.sender)
             /\ botAdmins' = botAdmins]_vars
    /\ [][botAdmins' # botAdmins =>
             /\ lastUpdate'.sender \in AdminIDs
             /\ lastUpdate'.handler \in {<<"OnText">>, <<"edit", "channel">>, <<"reset">>}
             /\ lastUpdate'.handler = <<"OnText">> =>
                   stateOf(lastUpdate'.sender) = <<"impersonate", "user">>]_vars

\* user 1 has cleared its subscriptions while the administrator acts for
\* the channel and has subscribed the channel
ClearedBesideImpersonation ==
    /\ lastUpdate.sender = 1
    /\ lastUpdate.handler = <<"clear", "subscriptions">>
    /\ botAdmins[7] = -1001
    /\ \E s \in dbSubscriptions : s.UserID = -1001

\* the whole text is a number
Numeric(text) == ~Atoi(text).err

\* the step of the add-subscription conversation a state stands for: 1 the
\* name, 2 the quality, 3 the level, 4 the distance, 0 none of them
FlowStep(state) ==
    IF state = <<"add", "subscription">> THEN 1
    ELSE IF HasPrefix(state, <<"add", "subscription", "iv">>) THEN 2
    ELSE IF HasPrefix(state, <<"add", "subscription", "level">>) THEN 3
    ELSE IF HasPrefix(state, <<"add", "subscription", "distance">>) THEN 4
    ELSE 0

\* the input the conversation asks for at a step
ValidInput(step, text) ==
    IF step = 1 THEN ToLower(text) \in DOMAIN pokemonNameToID
    ELSE IF step = 2 THEN Numeric(text) /\ Atoi(text).n \in 0..100
    ELSE IF step = 3 THEN Numeric(text) /\ Atoi(text).n \in 0..40
    ELSE Numeric(text) /\ Atoi(text).n >= 0

\* the values accepted so far, as the state carries them
Accepted(state) == SubSeq(state, 4, Len(state))

\* C33: the add-subscription conversation goes name, quality, level,
\* distance, idle; an invalid text (an unknown name, a quality outside
\* 0..100, a level outside 0..40, a negative distance or one that is not a
\* number) leaves the conversation state, the store and both indices as
\* they were; a valid one moves to the next step with the accepted value;
\* and the subscription is written at the fourth valid text alone, with
\* the type and the values accepted before.
AddSubscriptionFlowIsStrict ==
    [][LET sender == lastUpdate'.sender
           text == lastUpdate'.text
           state == stateOf(sender)
           next == IF sender \in DOMAIN userStates' THEN userStates'[sender] ELSE <<>>
       IN /\ dbSubscriptions' # dbSubscriptions =>
                lastUpdate'.handler = <<"OnText">> /\ FlowStep(state) = 4
          /\ lastUpdate'.handler = <<"OnText">> /\ FlowStep(state) > 0 =>
                IF ~ValidInput(FlowStep(state), text)
                THEN UNCHANGED <<userStates, store, indices>>
                ELSE /\ FlowStep(state) = 1 =>
                           /\ next = <<"add", "subscription", "iv",
                                       pokemonNameToID[ToLower(text)]>>
                           /\ UNCHANGED <<store, indices>>
                     /\ FlowStep(state) = 2 =>
                           /\ next = <<"add", "subscription", "level">>
                                         \o Accepted(state) \o <<Atoi(text).n>>
                           /\ UNCHANGED <<store, indices>>
                     /\ FlowStep(state) = 3 =>
                           /\ next = <<"add", "subscription", "distance">>
                                         \o Accepted(state) \o <<Atoi(text).n>>
                           /\ UNCHANGED <<store, indices>>
                     /\ FlowStep(state) = 4 =>
                           /\ next = <<>>
                           /\ dbSubscriptions' =
                                 saveSubscription(dbSubscriptions,
                                     Subscription(sender, state[4], state[5], state[6],
                                                  Atoi(text).n))
                           /\ users' = users
                           /\ dbUsers' = dbUsers]_vars

\* the texts of CancelTexts that read cancel or abbruch, whatever the case
\* of their letters
EndingTexts ==
    {<<"c", "a", "n", "c", "e", "l">>, <<"A", "b", "b", "r", "u", "c", "h">>,
     <<"C", "A", "N", "C", "E", "L">>}

\* C34: a text that reads cancel or abbruch, in any case of letters,
\* leaves the sender's conversation idle and changes no row, no
\* subscription, no index and no other sender's conversation; sent while
\* the conversation is idle it changes nothing at all.
CancelResetsConversation ==
    [][lastUpdate'.handler = <<"OnText">> /\ lastUpdate'.text \in EndingTexts =>
          LET sender == lastUpdate'.sender
          IN /\ UNCHANGED <<store, indices, botAdmins>>
             /\ stateOf(sender) = <<>> => userStates' = userStates
             /\ stateOf(sender) # <<>> => userStates' = setState(sender, <<>>)]_vars

\* the administrator has ended a conversation in capital letters (no
\* other text of CancelTexts ends one of the administrator's without a new
\* row or a new target), and acts for itself as before
EndedInCapitals ==
    /\ lastUpdate.sender = 7
    /\ lastUpdate.text = <<"C", "A", "N", "C", "E", "L">>
    /\ 7 \in DOMAIN userStates
    /\ userStates[7] = <<>>
    /\ botAdmins[7] = 7
    /\ DOMAIN dbUsers = {1, -1001}

\* the texts of ArgumentTexts that are numbers, and the numbers they are
NumberOf ==
    (<<"9", "0">> :> 90) @@ (<<"3", "0">> :> 30) @@ (<<"1", "5", "0">> :> 150) @@
    (<<"-", "5">> :> 0 - 5)

\* the i-th of the arguments args is a number from low to high (high < 0:
\* to any height), or is left out
ArgumentWithin(args, i, low, high) ==
    Len(args) >= i =>
        /\ args[i] \in DOMAIN NumberOf
        /\ NumberOf[args[i]] >= low
        /\ high >= 0 => NumberOf[args[i]] <= high

\* the number the i-th of the arguments args stands for, 0 when left out
ArgumentValue(args, i) == IF Len(args) >= i THEN NumberOf[args[i]] ELSE 0

\* C35: /subscribe with an unknown name, a quality that is no number from
\* 0 to 100, a level that is no number from 0 to 40 or a distance that is
\* no number from 0 on changes no subscription and does not rebuild the
\* subscription index; with valid arguments it stores the subscription of
\* the named type with the numbers given and 0 for those left out.
SubscribeRejectsInvalidArguments ==
    [][lastUpdate'.handler = <<"subscribe">> /\ Len(lastUpdate'.args) >= 1 =>
          LET args == lastUpdate'.args
          IN IF /\ ToLower(args[1]) \in DOMAIN pokemonNameToID
                /\ ArgumentWithin(args, 2, 0, 100)
                /\ ArgumentWithin(args, 3, 0, 40)
                /\ ArgumentWithin(args, 4, 0, -1)
             THEN dbSubscriptions' =
                     saveSubscription(dbSubscriptions,
                         Subscription(lastUpdate'.sender, pokemonNameToID[ToLower(args[1])],
                                      ArgumentValue(args, 2), ArgumentValue(args, 3),
                                      ArgumentValue(args, 4)))
             ELSE /\ UNCHANGED <<dbSubscriptions, activeSubscriptions>>
                  /\ "subscriptions" \notin rebuilt']_vars

\* /subscribe Pidgey 90 has stored level and distance 0, and /subscribe
\* Pidgey 90 30 150m after it has been rejected
RejectedAfterDefaults ==
    /\ lastUpdate.args = <<<<"P", "i", "d", "g", "e", "y">>, <<"9", "0">>, <<"3", "0">>,
                           <<"1", "5", "0", "m">>>>
    /\ dbSubscriptions = {Subscription(1, 16, 90, 0, 0)}

\* the subscriptions in S of the subscribers other than id
OfOthers(S, id) == {s \in S : s.UserID # id}

\* C36: /unsubscribe and clear_subscriptions leave the subscriptions of
\* every subscriber other than the acting one as they were, in the store
\* and in the subscription index they rebuild; and a matching pass
\* dispatches on the subscription path only to a subscriber who has a
\* stored subscription to the type of the row.
RemovalTouchesOnlyTheActor ==
    /\ [][lastUpdate'.handler \in {<<"unsubscribe">>, <<"clear", "subscriptions">>} =>
             /\ OfOthers(dbSubscriptions', lastUpdate'.userID)
                   = OfOthers(dbSubscriptions, lastUpdate'.userID)
             /\ \A p \in PokemonIDs :
                   OfOthers(Range(activeSubscriptions'[p]), lastUpdate'.userID)
                      = OfOthers(Range(activeSubscriptions[p]), lastUpdate'.userID)]_vars
    /\ [](\A r \in fetched : \A u \in UserIDs :
             Called(r, u, "subscription") =>
                \E s \in dbSubscriptions : s.UserID = u /\ s.PokemonID = r.PokemonID)

\* user with the coordinates of location
LocatedAt(user, location) ==
    [user EXCEPT !.Latitude = location.Lat, !.Longitude = location.Lng]

\* C37: a matching pass sees a user at a location the user has sent, with
\* both coordinates of it, never at the latitude of one location and the
\* longitude of another: every dispatch of a top-quality row passes the
\* distance test at one of the locations the user has been at.
LocationUpdateIsOneStep ==
    \A r \in fetched : \A u \in DOMAIN dbUsers :
        Called(r, u, "hundo") =>
            \E location \in Locations :
                ~tooFar(LocatedAt(dbUsers[u], location), dbUsers[u].MaxDistance, r)

====
